---- MODULE Spec2Model ----
(***************************************************************************)
(* A model of the job-application assistant: the resume parser, the cover  *)
(* letter generator and the company researcher.                            *)
(*                                                                         *)
(* Text is a TLA+ string; a character is a string of length 1, read with   *)
(* SubSeq.  The bullet character U+2022 cannot be written in a module and  *)
(* is written BULLET, a character that occurs nowhere else in the inputs.  *)
(* Raw bytes and decoded file contents are tuples of numbers.              *)
(***************************************************************************)
EXTENDS Integers, Sequences, FiniteSets, TLC

VARIABLES
    pc,               \* "start" before the modelled call, "done" after it
    calls,            \* the external requests the call issued, in order
    bullet_response,  \* what the LLM answers to the bullet-selection request
    letter_response,  \* what the LLM answers to the composition request
    llm_fail,         \* which LLM request fails (0: none)
    bullets,          \* outcome of extract_resume_bullets
    cover_letter,     \* outcome of generate_cover_letter
    resume_text,      \* the text given to the resume parser
    sections,         \* result of extract_key_sections
    found_skills,     \* result of extract_skills_keywords
    file,             \* the uploaded file: its name, its bytes, what the document library reads
    extracted,        \* outcome of extract_text
    company_name,     \* the argument of research_company
    env,              \* the researcher's credential and what the outside world answers
    company_info,     \* the facets research_company has gathered
    brief,            \* outcome of research_company
    mail,             \* the mail operation called, its arguments and what the outside answers
    outbox,           \* the messages the SMTP server has accepted
    sent,             \* outcome of the mail operation
    tracker,          \* the tracking operation called, its arguments and what the outside answers
    store,            \* the rows of the Airtable table
    tracked,          \* outcome of the tracking operation
    generation,       \* the analyze or customize call: its arguments and the LLM's answer
    generated         \* outcome of the analyze or customize call

letterVars == <<bullet_response, letter_response, llm_fail, bullets, cover_letter>>
parserVars == <<resume_text, sections, found_skills>>
extractVars == <<file, extracted>>
researchVars == <<company_name, env, company_info, brief>>
mailVars == <<mail, outbox, sent>>
trackerVars == <<tracker, store, tracked>>
generationVars == <<generation, generated>>
vars == <<pc, calls, letterVars, parserVars, extractVars, researchVars, mailVars, trackerVars,
          generationVars>>

(***************************************************************************)
(* The outcome of a call: a value returned, an error raised, or no call    *)
(* yet.                                                                    *)
(***************************************************************************)
Ok(v) == [status |-> "ok", value |-> v]
Raise(e) == [status |-> "raise", error |-> e]
None == [status |-> "none"]

\* The components a specification does not exercise stay as constructed.
LetterIdle ==
    /\ bullet_response = ""
    /\ letter_response = ""
    /\ llm_fail = 0
    /\ bullets = None
    /\ cover_letter = None

ParserIdle ==
    /\ resume_text = ""
    /\ sections = None
    /\ found_skills = None

ExtractIdle ==
    /\ file = None
    /\ extracted = None

ResearchIdle ==
    /\ company_name = ""
    /\ env = None
    /\ company_info = None
    /\ brief = None

MailIdle ==
    /\ mail = None
    /\ outbox = <<>>
    /\ sent = None

TrackerIdle ==
    /\ tracker = None
    /\ store = <<>>
    /\ tracked = None

GenerationIdle ==
    /\ generation = None
    /\ generated = None

(***************************************************************************)
(* Bounds of the model.                                                    *)
(***************************************************************************)
MaxLetterChunks == 3
MaxBulletLines == 3
MaxSegLines == 4
MaxSkillChunks == 3
MaxBytes == 3
MaxPages == 2

(***************************************************************************)
(* Python's str operations.                                                *)
(***************************************************************************)
BULLET == "^"

CharAt(s, i) == SubSeq(s, i, i)

ascii_uppercase == "ABCDEFGHIJKLMNOPQRSTUVWXYZ"
ascii_lowercase == "abcdefghijklmnopqrstuvwxyz"

AlphaIndex(table, c) == CHOOSE i \in 1..26 : CharAt(table, i) = c
UpperSet == {CharAt(ascii_uppercase, i) : i \in 1..26}
LowerSet == {CharAt(ascii_lowercase, i) : i \in 1..26}
to_lower == [c \in UpperSet |-> CharAt(ascii_lowercase, AlphaIndex(ascii_uppercase, c))]
to_upper == [c \in LowerSet |-> CharAt(ascii_uppercase, AlphaIndex(ascii_lowercase, c))]

LowerChar(c) == IF c \in UpperSet THEN to_lower[c] ELSE c
UpperChar(c) == IF c \in LowerSet THEN to_upper[c] ELSE c

\* s.lower(), character by character (by halves, to keep the evaluation shallow).
RECURSIVE lower(_)
lower(s) ==
    IF Len(s) = 0 THEN ""
    ELSE IF Len(s) = 1 THEN LowerChar(s)
    ELSE lower(SubSeq(s, 1, Len(s) \div 2)) \o lower(SubSeq(s, Len(s) \div 2 + 1, Len(s)))

\* The characters str.strip() removes (the ASCII ones a module can write).
Whitespace == {" ", "\t", "\n", "\r", "\f"}

IsSpaceAt(s, i) == CharAt(s, i) \in Whitespace

\* s.strip(): from the first to the last character that is not whitespace.
strip(s) ==
    IF \A i \in 1..Len(s) : IsSpaceAt(s, i) THEN ""
    ELSE LET first == CHOOSE i \in 1..Len(s) :
                          ~IsSpaceAt(s, i) /\ \A j \in 1..(i - 1) : IsSpaceAt(s, j)
             back == CHOOSE k \in 0..(Len(s) - 1) :
                          ~IsSpaceAt(s, Len(s) - k) /\ \A j \in 0..(k - 1) : IsSpaceAt(s, Len(s) - j)
         IN  SubSeq(s, first, Len(s) - back)

startswith(s, prefix) == Len(s) >= Len(prefix) /\ SubSeq(s, 1, Len(prefix)) = prefix

\* sub in s
contains(s, sub) == \E i \in 0..(Len(s) - Len(sub)) : SubSeq(s, i + 1, i + Len(sub)) = sub

\* s.split(sep) for a one-character separator: a tuple of strings, the pieces
\* between one occurrence of sep (or the start) and the next (or the end).
split(s, sep) ==
    LET at == {i \in 1..Len(s) : CharAt(s, i) = sep}
        n == Cardinality(at)
        pos(k) == IF k = 0 THEN 0
                  ELSE IF k = n + 1 THEN Len(s) + 1
                  ELSE CHOOSE i \in at : Cardinality({j \in at : j <= i}) = k
    IN  [k \in 1..(n + 1) |-> SubSeq(s, pos(k - 1) + 1, pos(k) - 1)]

\* sep.join(parts)
RECURSIVE join(_, _)
join(sep, parts) ==
    IF parts = <<>> THEN ""
    ELSE IF Len(parts) = 1 THEN parts[1]
    ELSE parts[1] \o sep \o join(sep, Tail(parts))

\* The concatenation of a tuple of strings.
Concat(parts) == join("", parts)

\* seq[:n]
Take(seq, n) == SubSeq(seq, 1, IF Len(seq) < n THEN Len(seq) ELSE n)

\* Tuples over S of length at most n.
SeqUpTo(S, n) == UNION {[1..k -> S] : k \in 0..n}

(***************************************************************************)
(* CoverLetterGenerator.                                                   *)
(***************************************************************************)
header ==
    "[Your Name]\n[Your Address]\n[Your Email]\n[Your Phone Number]\n[Date]\n\n"
    \o "[Hiring Manager's Name]\n[Company Name]\n[Company Address]\n\n"

closings == <<"sincerely", "best regards", "thank you">>

closing_block == "\n\nSincerely,\n[Your Name]"

\* A closing test that tells upper case from lower case.
HasClosing_cased(text) == \E k \in 1..Len(closings) : contains(text, closings[k])

HasClosing(text) ==
    LET low == lower(text) IN \E k \in 1..Len(closings) : contains(low, closings[k])

WithHeader(cover_letter_) ==
    LET stripped == strip(cover_letter_)
    IN  IF ~startswith(stripped, "[Your Name]") /\ ~startswith(stripped, "Dear")
        THEN header \o cover_letter_
        ELSE cover_letter_

WithClosing(cover_letter_) ==
    IF ~HasClosing(cover_letter_) THEN cover_letter_ \o closing_block ELSE cover_letter_

\* A post-processing that forgets the closing block.
format_cover_letter_no_closing(cover_letter_) == strip(WithHeader(cover_letter_))

format_cover_letter(cover_letter_) == strip(WithClosing(WithHeader(cover_letter_)))

is_bullet_line(line) ==
    startswith(line, BULLET) \/ startswith(line, "-") \/ startswith(line, "*")

\* The loop over response.content.split('\n'), from line k on.
RECURSIVE BulletLoop(_, _, _)
BulletLoop(lines, k, acc) ==
    IF k > Len(lines) THEN acc
    ELSE LET line == strip(lines[k])
         IN  BulletLoop(lines, k + 1, IF is_bullet_line(line) THEN Append(acc, line) ELSE acc)

\* A parse that tests the marker on the untrimmed line.
parse_bullets_unstripped(content) ==
    LET lines == split(content, "\n")
    IN  SelectSeq([k \in 1..Len(lines) |-> lines[k]], is_bullet_line)

parse_bullets(content) == BulletLoop(split(content, "\n"), 1, <<>>)

\* extract_resume_bullets: one LLM request, then the parse of its answer.
extract_resume_bullets(fail, content) ==
    IF fail THEN [out |-> Raise("GenerationError"), calls |-> <<[kind |-> "bullets"]>>]
    ELSE [out |-> Ok(parse_bullets(content)), calls |-> <<[kind |-> "bullets"]>>]

\* generate_cover_letter: the bullet request, then the composition request.
\* generate_cover_letter that hands every selected bullet to the composition.
generate_cover_letter_all_bullets(fail, bullet_content, letter_content) ==
    LET b == extract_resume_bullets(fail = 1, bullet_content)
    IN  IF b.out.status = "raise" THEN [out |-> b.out, bullets |-> b.out, calls |-> b.calls]
        ELSE LET bullets_text == join("\n", b.out.value)
                 request == [kind |-> "compose", achievements |-> bullets_text]
             IN  [out |-> IF fail = 2 THEN Raise("GenerationError")
                          ELSE Ok(format_cover_letter(letter_content)),
                  bullets |-> b.out,
                  calls |-> b.calls \o <<request>>]

generate_cover_letter(fail, bullet_content, letter_content) ==
    LET b == extract_resume_bullets(fail = 1, bullet_content)
    IN  IF b.out.status = "raise" THEN [out |-> b.out, bullets |-> b.out, calls |-> b.calls]
        ELSE LET bullets_text == join("\n", Take(b.out.value, 5))
                 request == [kind |-> "compose", achievements |-> bullets_text]
             IN  [out |-> IF fail = 2 THEN Raise("GenerationError")
                          ELSE Ok(format_cover_letter(letter_content)),
                  bullets |-> b.out,
                  calls |-> b.calls \o <<request>>]

(***************************************************************************)
(* ResumeParser.extract_key_sections.                                      *)
(***************************************************************************)
section_order == <<"contact", "summary", "experience", "education", "skills", "projects">>

section_names == {section_order[k] : k \in 1..Len(section_order)}

section_keywords ==
    [contact    |-> <<"contact", "phone", "email", "address">>,
     summary    |-> <<"summary", "objective", "profile", "about">>,
     experience |-> <<"experience", "employment", "work history", "professional">>,
     education  |-> <<"education", "degree", "university", "college", "school">>,
     skills     |-> <<"skills", "technical", "competencies", "technologies">>,
     projects   |-> <<"projects", "portfolio", "achievements">>]

empty_sections ==
    [contact |-> "", summary |-> "", experience |-> "", education |-> "",
     skills |-> "", projects |-> ""]

header_limit == 50

NoSection == "None"

\* The inner loop over section_keywords.items(): the first section, in the
\* dict's order, with a keyword in the lowered line, for a short enough line.
section_found(line) ==
    LET line_lower == strip(lower(line))
        hits == {k \in 1..Len(section_order) :
                    /\ \E w \in 1..Len(section_keywords[section_order[k]]) :
                           contains(line_lower, section_keywords[section_order[k]][w])
                    /\ Len(strip(line)) < header_limit}
    IN  IF hits = {} THEN NoSection
        ELSE section_order[CHOOSE k \in hits : \A h \in hits : k <= h]

\* A flush that adds the buffer to what the section already holds.
Flush_appending(st) ==
    IF st.current_section # NoSection /\ st.section_content # <<>>
    THEN [st.sections EXCEPT ![st.current_section] =
             IF @ = "" THEN join("\n", st.section_content)
             ELSE @ \o "\n" \o join("\n", st.section_content)]
    ELSE st.sections

\* Saving the buffer: only with a current section and a non-empty buffer.
Flush(st) ==
    IF st.current_section # NoSection /\ st.section_content # <<>>
    THEN [st.sections EXCEPT ![st.current_section] = join("\n", st.section_content)]
    ELSE st.sections

\* A loop body that buffers the lowered line.
SegStep_lowered(st, line) ==
    LET found == section_found(line)
    IN  IF found # NoSection
        THEN [sections |-> Flush(st), current_section |-> found, section_content |-> <<>>]
        ELSE IF st.current_section # NoSection /\ strip(line) # ""
        THEN [st EXCEPT !.section_content = Append(@, strip(lower(line)))]
        ELSE st

\* A header test without the length limit.
SegStep_no_limit(st, line) ==
    LET hits == {k \in 1..Len(section_order) :
                    \E w \in 1..Len(section_keywords[section_order[k]]) :
                        contains(lower(line), section_keywords[section_order[k]][w])}
    IN  IF hits # {}
        THEN [sections |-> Flush(st),
              current_section |-> section_order[CHOOSE k \in hits : \A h \in hits : k <= h],
              section_content |-> <<>>]
        ELSE IF st.current_section # NoSection /\ strip(line) # ""
        THEN [st EXCEPT !.section_content = Append(@, line)]
        ELSE st

\* A header test that lets the last matching section win.
SegStep_last_match(st, line) ==
    LET hits == {k \in 1..Len(section_order) :
                    /\ \E w \in 1..Len(section_keywords[section_order[k]]) :
                           contains(lower(line), section_keywords[section_order[k]][w])
                    /\ Len(strip(line)) < header_limit}
    IN  IF hits # {}
        THEN [sections |-> Flush(st),
              current_section |-> section_order[CHOOSE k \in hits : \A h \in hits : k >= h],
              section_content |-> <<>>]
        ELSE IF st.current_section # NoSection /\ strip(line) # ""
        THEN [st EXCEPT !.section_content = Append(@, line)]
        ELSE st

\* One turn of the loop over the lines.
SegStep(st, line) ==
    LET found == section_found(line)
    IN  IF found # NoSection
        THEN [sections |-> Flush(st), current_section |-> found, section_content |-> <<>>]
        ELSE IF st.current_section # NoSection /\ strip(line) # ""
        THEN [st EXCEPT !.section_content = Append(@, line)]
        ELSE st

RECURSIVE SegLoop(_, _, _)
SegLoop(lines, k, st) ==
    IF k > Len(lines) THEN st ELSE SegLoop(lines, k + 1, SegStep(st, lines[k]))

extract_key_sections(text) ==
    Flush(SegLoop(split(text, "\n"), 1,
                  [sections |-> empty_sections,
                   current_section |-> NoSection,
                   section_content |-> <<>>]))

(***************************************************************************)
(* ResumeParser.extract_skills_keywords.                                   *)
(***************************************************************************)
common_skills ==
    <<"python", "java", "javascript", "react", "node.js", "sql", "mysql", "postgresql",
      "mongodb", "aws", "azure", "docker", "kubernetes", "git", "html", "css",
      "machine learning", "data science", "tensorflow", "pytorch", "pandas", "numpy",
      "api", "rest", "graphql", "agile", "scrum", "ci/cd", "devops", "linux",
      "project management", "leadership", "communication", "problem solving">>

IsCased(c) == c \in UpperSet \/ c \in LowerSet

\* s.title(): a cased character is uppercased after an uncased one (or at the
\* start) and lowercased after a cased one.
RECURSIVE TitleFrom(_, _)
TitleFrom(s, k) ==
    IF k > Len(s) THEN ""
    ELSE (IF k > 1 /\ IsCased(CharAt(s, k - 1))
          THEN LowerChar(CharAt(s, k))
          ELSE UpperChar(CharAt(s, k))) \o TitleFrom(s, k + 1)

title(s) == TitleFrom(s, 1)

RECURSIVE SkillLoop(_, _, _)
SkillLoop(resume_lower, k, found) ==
    IF k > Len(common_skills) THEN found
    ELSE SkillLoop(resume_lower, k + 1,
                   IF contains(resume_lower, common_skills[k])
                   THEN Append(found, title(common_skills[k]))
                   ELSE found)

\* A match against the text as written, not lowered.
extract_skills_keywords_cased(text) == SkillLoop(text, 1, <<>>)

extract_skills_keywords(text) == SkillLoop(lower(text), 1, <<>>)

(***************************************************************************)
(* ResumeParser.extract_text.  File contents are tuples of numbers: bytes  *)
(* before decoding, code points after.                                     *)
(***************************************************************************)
\* bytes.decode('utf-8'), strict: the code points, or UnicodeDecodeError.
IsContinuation(b) == b >= 128 /\ b <= 191

RECURSIVE DecodeFrom(_, _, _)
DecodeFrom(bs, k, acc) ==
    IF k > Len(bs) THEN Ok(acc)
    ELSE LET b0 == bs[k]
             follow(n) == k + n <= Len(bs) /\ \A j \in 1..n : IsContinuation(bs[k + j])
         IN  IF b0 < 128 THEN DecodeFrom(bs, k + 1, Append(acc, b0))
             ELSE IF b0 >= 194 /\ b0 <= 223 /\ follow(1)
             THEN DecodeFrom(bs, k + 2, Append(acc, (b0 - 192) * 64 + (bs[k + 1] - 128)))
             ELSE IF /\ b0 >= 224 /\ b0 <= 239 /\ follow(2)
                     /\ (b0 = 224 => bs[k + 1] >= 160)
                     /\ (b0 = 237 => bs[k + 1] <= 159)
             THEN DecodeFrom(bs, k + 3,
                      Append(acc, (b0 - 224) * 4096 + (bs[k + 1] - 128) * 64 + (bs[k + 2] - 128)))
             ELSE IF /\ b0 >= 240 /\ b0 <= 244 /\ follow(3)
                     /\ (b0 = 240 => bs[k + 1] >= 144)
                     /\ (b0 = 244 => bs[k + 1] <= 143)
             THEN DecodeFrom(bs, k + 4,
                      Append(acc, (b0 - 240) * 262144 + (bs[k + 1] - 128) * 4096
                                  + (bs[k + 2] - 128) * 64 + (bs[k + 3] - 128)))
             ELSE Raise("UnicodeDecodeError")

utf8_decode(bs) == DecodeFrom(bs, 1, <<>>)

\* The code points str.strip() removes.
WhitespaceCodes ==
    (9..13) \cup (28..32) \cup {133, 160, 5760} \cup (8192..8202)
        \cup {8232, 8233, 8239, 8287, 12288}

\* text.strip() on code points.
strip_codes(text) ==
    IF \A i \in 1..Len(text) : text[i] \in WhitespaceCodes THEN <<>>
    ELSE LET first == CHOOSE i \in 1..Len(text) :
                          text[i] \notin WhitespaceCodes
                              /\ \A j \in 1..(i - 1) : text[j] \in WhitespaceCodes
             back == CHOOSE k \in 0..(Len(text) - 1) :
                          text[Len(text) - k] \notin WhitespaceCodes
                              /\ \A j \in 0..(k - 1) : text[Len(text) - j] \in WhitespaceCodes
         IN  SubSeq(text, first, Len(text) - back)

Newline == 10

\* What PyPDF2 or python-docx makes of a file: its pages or paragraphs, or an error.
Unreadable == [readable |-> FALSE]
Readable(parts) == [readable |-> TRUE, parts |-> parts]

\* text += part + "\n" over the pages or paragraphs the library yields.
RECURSIVE ConcatParts(_)
ConcatParts(parts) ==
    IF parts = <<>> THEN <<>>
    ELSE parts[1] \o <<Newline>> \o ConcatParts(Tail(parts))

\* _extract_from_pdf and _extract_from_docx: the library reads the file or fails.
extract_from_document(file_) ==
    IF ~file_.doc.readable THEN Raise("LibraryError")
    ELSE Ok(strip_codes(ConcatParts(file_.doc.parts)))

\* A plain-text extraction that trims what it decoded.
extract_from_txt_trimmed(file_) ==
    LET d == utf8_decode(file_.bytes)
    IN  IF d.status = "ok" THEN Ok(strip_codes(d.value)) ELSE d

extract_from_txt(file_) == utf8_decode(file_.bytes)

\* file.name.split('.')[-1].lower()
file_extension(name) ==
    LET parts == split(name, ".") IN lower(parts[Len(parts)])

\* extract_text: the dispatch, inside the try whose handler raises a plain
\* Exception for whatever was raised (the original becomes its context).
extract_text(file_) ==
    LET ext == file_extension(file_.name)
        inner == IF ext = "pdf" THEN extract_from_document(file_)
                 ELSE IF ext = "docx" THEN extract_from_document(file_)
                 ELSE IF ext = "txt" THEN extract_from_txt(file_)
                 ELSE Raise("ValueError")
    IN  IF inner.status = "raise"
        THEN [status |-> "raise", error |-> "Exception", context |-> inner.error]
        ELSE inner

(***************************************************************************)
(* CompanyResearcher.                                                      *)
(*                                                                         *)
(* The outside world is a record env: the credential, whether the search  *)
(* client was importable, what each search, page request and HTML parse   *)
(* answers, and whether standard output accepts the handlers' print.      *)
(* A helper's outcome carries the requests it sent (calls).               *)
(***************************************************************************)
\* A dict is a function on its keys: {} and d[key] = value.
empty_dict == [k \in {} |-> ""]
setitem(d, key, value) == (key :> value) @@ d

default_company_info ==
    [basic_info |-> "", recent_news |-> <<>>, company_culture |-> "",
     size_and_industry |-> "", recent_achievements |-> <<>>]

disclaimer(name) ==
    "Limited company information available for " \o name
        \o ". Consider researching the company manually for better personalization."

\* s.split(sep) for any non-empty separator.
RECURSIVE split_str(_, _)
split_str(s, sep) ==
    IF ~contains(s, sep) THEN <<s>>
    ELSE LET i == CHOOSE i \in 0..(Len(s) - Len(sep)) :
                      /\ SubSeq(s, i + 1, i + Len(sep)) = sep
                      /\ \A j \in 0..(i - 1) : SubSeq(s, j + 1, j + Len(sep)) # sep
         IN  <<SubSeq(s, 1, i)>> \o split_str(SubSeq(s, i + Len(sep) + 1, Len(s)), sep)

\* s.replace(old, new)
replace(s, old, new) == join(new, split_str(s, old))

\* [r[key] for r in results if key in r]
RECURSIVE Having(_, _)
Having(results, key) ==
    IF results = <<>> THEN <<>>
    ELSE (IF key \in DOMAIN Head(results) THEN <<Head(results)[key]>> ELSE <<>>)
             \o Having(Tail(results), key)

\* The snippets that speak of culture or values.
RECURSIVE CultureParts(_)
CultureParts(results) ==
    IF results = <<>> THEN <<>>
    ELSE (IF /\ "snippet" \in DOMAIN Head(results)
             /\ \/ contains(lower(Head(results).snippet), "culture")
                \/ contains(lower(Head(results).snippet), "values")
          THEN <<Head(results).snippet>> ELSE <<>>)
             \o CultureParts(Tail(results))

general_query(name) == name \o " company about"
news_query(name) == name \o " news 2024"
culture_query(name) == name \o " company culture careers values"

\* What leaves a helper whose handler has caught an error: the handler prints,
\* and an error of print leaves the helper.
Handled(e, info, requests) ==
    IF e.stdout_writable THEN [status |-> "ok", value |-> info, calls |-> requests]
    ELSE [status |-> "raise", error |-> "OSError", calls |-> requests]

Returned(info, requests) == [status |-> "ok", value |-> info, calls |-> requests]

research_with_serpapi(name, e) ==
    IF ~e.GoogleSearch THEN Handled(e, empty_dict, <<>>)
    ELSE
    LET c1 == <<<<"search", general_query(name)>>>>
        c2 == Append(c1, <<"search", news_query(name)>>)
        c3 == Append(c2, <<"search", culture_query(name)>>)
        i0 == empty_dict
        i1 == IF "organic_results" \in DOMAIN e.general.results
              THEN setitem(i0, "basic_info",
                       join(" ", Having(Take(e.general.results.organic_results, 3), "snippet")))
              ELSE i0
        i2 == IF "news_results" \in DOMAIN e.news.results
              THEN setitem(i1, "recent_news",
                       Having(Take(e.news.results.news_results, 3), "title"))
              ELSE i1
        i3 == IF "organic_results" \in DOMAIN e.culture.results
              THEN setitem(i2, "company_culture",
                       join(" ", CultureParts(Take(e.culture.results.organic_results, 2))))
              ELSE i2
    IN  IF e.general.raises THEN Handled(e, i0, c1)
        ELSE IF e.news.raises THEN Handled(e, i1, c2)
        ELSE IF e.culture.raises THEN Handled(e, i2, c3)
        ELSE Returned(i3, c3)

\* The first parent text of more than 50 characters, cut to 500.
RECURSIVE AboutLoop(_, _, _)
AboutLoop(about_sections, k, info) ==
    IF k > Len(about_sections) THEN info
    ELSE IF Len(about_sections[k]) > 50
         THEN setitem(info, "basic_info", Take(about_sections[k], 500))
         ELSE AboutLoop(about_sections, k + 1, info)

scrape_company_website(website_url, e) ==
    LET c == <<<<"GET", website_url>>>>
        i1 == AboutLoop(Take(e.site.about_sections, 2), 1, empty_dict)
        i2 == IF Len(e.site.news_links) > 0
              THEN setitem(i1, "recent_news", Take(e.site.news_links, 3))
              ELSE i1
    IN  IF e.site.raises THEN Handled(e, empty_dict, c)
        ELSE IF e.site.status_code # 200 THEN Returned(empty_dict, c)
        ELSE IF ~e.site.parses THEN Handled(e, empty_dict, c)
        ELSE Returned(i2, c)

search_url(name) == "https://www.google.com/search?q=" \o name \o "+official+website"

\* href.split('url?q=')[1].split('&')[0]
actual_url(href) == split(split_str(href, "url?q=")[2], "&")[1]

\* company_website is only tested for truth, so None is the empty string.
NoWebsite == ""

RECURSIVE WebsiteLoop(_, _, _)
WebsiteLoop(links, k, name) ==
    IF k > Len(links) THEN NoWebsite
    ELSE IF /\ contains(links[k], "url?q=")
            /\ contains(lower(actual_url(links[k])), replace(lower(name), " ", ""))
         THEN actual_url(links[k])
         ELSE WebsiteLoop(links, k + 1, name)

research_with_scraping(name, e) ==
    LET c == <<<<"GET", search_url(name)>>>>
        company_website == WebsiteLoop(Take(e.page.links, 10), 1, name)
        site == scrape_company_website(company_website, e)
    IN  IF e.page.raises THEN Handled(e, empty_dict, c)
        ELSE IF e.page.status_code # 200 THEN Returned(empty_dict, c)
        ELSE IF ~e.page.parses THEN Handled(e, empty_dict, c)
        ELSE IF company_website = NoWebsite THEN Returned(empty_dict, c)
        ELSE IF site.status = "raise" THEN Handled(e, empty_dict, c \o site.calls)
        ELSE Returned(site.value @@ empty_dict, c \o site.calls)

RECURSIVE BulletList(_)
BulletList(items) ==
    IF items = <<>> THEN ""
    ELSE BULLET \o " " \o Head(items) \o "\n" \o BulletList(Tail(items))

format_company_info(name, info) ==
    "Company Research: " \o name \o "\n\n"
    \o (IF info.basic_info # ""
        THEN "About the Company:\n" \o Take(info.basic_info, 300) \o "...\n\n" ELSE "")
    \o (IF Len(info.recent_news) > 0
        THEN "Recent News/Updates:\n" \o BulletList(Take(info.recent_news, 3)) \o "\n" ELSE "")
    \o (IF info.company_culture # ""
        THEN "Company Culture/Values:\n" \o Take(info.company_culture, 200) \o "...\n\n" ELSE "")
    \o (IF info.size_and_industry # ""
        THEN "Industry & Size:\n" \o info.size_and_industry \o "\n\n" ELSE "")
    \o (IF Len(info.recent_achievements) > 0
        THEN "Recent Achievements:\n" \o BulletList(Take(info.recent_achievements, 2)) ELSE "")
    \o "\n[Use this information to show genuine interest and knowledge about the company in your cover letter]"

\* company_info.update(found)
updated(company_info_, found) ==
    LET m == found @@ company_info_
    IN  [basic_info |-> m.basic_info, recent_news |-> m.recent_news,
         company_culture |-> m.company_culture,
         size_and_industry |-> m.size_and_industry,
         recent_achievements |-> m.recent_achievements]

Researched(e, name) ==
    IF e.serpapi_key # "" THEN research_with_serpapi(name, e)
    ELSE research_with_scraping(name, e)

\* research_company without its handler.
research_company_unguarded(name, e) ==
    LET found == Researched(e, name)
    IN  IF found.status = "raise"
        THEN [out |-> Raise(found.error), company_info |-> default_company_info,
              calls |-> found.calls]
        ELSE [out |-> Ok(format_company_info(name, updated(default_company_info, found.value))),
              company_info |-> updated(default_company_info, found.value),
              calls |-> found.calls]

research_company(name, e) ==
    LET found == Researched(e, name)
    IN  IF found.status = "raise"
        THEN [out |-> Ok(disclaimer(name)), company_info |-> default_company_info,
              calls |-> found.calls]
        ELSE [out |-> Ok(format_company_info(name, updated(default_company_info, found.value))),
              company_info |-> updated(default_company_info, found.value),
              calls |-> found.calls]

(***************************************************************************)
(* EmailSender.                                                            *)
(*                                                                         *)
(* A call is a record m: the sender's fields, the arguments, and what the  *)
(* outside answers -- which SMTP steps succeed (smtp), whether the server  *)
(* accepts the password, the state of each attachment path (files) and     *)
(* whether standard output accepts the handlers' print.                    *)
(***************************************************************************)
MaxAttachments == 2

create_email_body(cover_letter_, applicant_name, position, company) ==
    LET c1 == replace(cover_letter_, "[Your Name]", applicant_name)
        c2 == replace(c1, "[Company Name]", company)
        clean_cover_letter == replace(c2, "[Position]", position)
    IN  "Dear Hiring Manager,\n\nI hope this email finds you well. I am writing to express my strong interest in the "
        \o position \o " position at " \o company \o ".\n\n"
        \o clean_cover_letter
        \o "\n\nI have attached my resume for your review. I would welcome the opportunity to discuss how my background and enthusiasm can contribute to your team.\n\nThank you for your time and consideration. I look forward to hearing from you.\n\nBest regards,\n"
        \o applicant_name
        \o "\n\n---\nThis application was generated using an AI-powered job application assistant to ensure optimal matching and personalization.\n"

\* os.path.basename(file_path)
basename(file_path) ==
    LET pieces == split(file_path, "/") IN pieces[Len(pieces)]

\* The attachment loop: a path that does not exist is skipped, a file that
\* cannot be read is reported by print and skipped, the others are attached.
RECURSIVE AttachLoop(_, _, _, _)
AttachLoop(m, k, parts, all_read) ==
    IF k > Len(m.attachments) THEN [status |-> "ok", value |-> parts, all_read |-> all_read]
    ELSE LET file_path == m.attachments[k]
         IN  IF m.files[file_path] = "missing"
             THEN AttachLoop(m, k + 1, parts, all_read)
             ELSE IF m.files[file_path] = "unreadable"
             THEN IF m.stdout_writable THEN AttachLoop(m, k + 1, parts, FALSE)
                  ELSE [status |-> "raise", error |-> "OSError"]
             ELSE AttachLoop(m, k + 1,
                      Append(parts, "attachment; filename= " \o basename(file_path)),
                      all_read)

\* A session that goes on in clear text when the TLS upgrade fails.
smtp_session_without_tls(m, dispatch) ==
    LET step(name) == <<"smtp", name>>
        login_ok == m.smtp.login /\ m.password_accepted
        l1 == <<step("connect")>>
        l2 == Append(l1, step("starttls"))
        l3 == Append(l2, step("login"))
        l4 == IF dispatch = "" THEN l3 ELSE Append(l3, step(dispatch))
        out(log, raised, dispatched) ==
            [log |-> log, raised |-> raised, dispatched |-> dispatched]
    IN  IF ~m.smtp.connect THEN out(l1, TRUE, FALSE)
        ELSE IF ~login_ok THEN out(Append(l3, step("quit")), TRUE, FALSE)
        ELSE IF dispatch # "" /\ ~m.smtp.send THEN out(Append(l4, step("quit")), TRUE, FALSE)
        ELSE out(Append(l4, step("quit")), ~m.smtp.quit, dispatch # "")

\* with smtplib.SMTP(...) as server: the steps up to the first that raises;
\* the context manager says QUIT on the way out once the connection exists.
smtp_session(m, dispatch) ==
    LET step(name) == <<"smtp", name>>
        login_ok == m.smtp.login /\ m.password_accepted
        l1 == <<step("connect")>>
        l2 == Append(l1, step("starttls"))
        l3 == Append(l2, step("login"))
        l4 == IF dispatch = "" THEN l3 ELSE Append(l3, step(dispatch))
        out(log, raised, dispatched) ==
            [log |-> log, raised |-> raised, dispatched |-> dispatched]
    IN  IF ~m.smtp.connect THEN out(l1, TRUE, FALSE)
        ELSE IF ~m.smtp.starttls THEN out(Append(l2, step("quit")), TRUE, FALSE)
        ELSE IF ~login_ok THEN out(Append(l3, step("quit")), TRUE, FALSE)
        ELSE IF dispatch # "" /\ ~m.smtp.send THEN out(Append(l4, step("quit")), TRUE, FALSE)
        ELSE out(Append(l4, step("quit")), ~m.smtp.quit, dispatch # "")

\* except Exception as e: print(...); return False
mail_handler(m) == IF m.stdout_writable THEN Ok(FALSE) ELSE Raise("OSError")

mail_outcome(m, session, msg) ==
    [out |-> IF session.raised THEN mail_handler(m) ELSE Ok(TRUE),
     calls |-> session.log,
     outbox |-> IF session.dispatched THEN <<msg>> ELSE <<>>]

send_application_email(m) ==
    LET body == create_email_body(m.cover_letter, m.applicant_name, m.position, m.company_name)
        attached == AttachLoop(m, 1, <<>>, TRUE)
        msg == [From |-> m.email_address, To |-> m.recipient_email,
                Subject |-> m.subject, body |-> body, attachments |-> attached.value]
    IN  IF attached.status = "raise"
        THEN [out |-> mail_handler(m), calls |-> <<>>, outbox |-> <<>>]
        ELSE mail_outcome(m, smtp_session(m, "sendmail"), msg)

test_connection(m) == mail_outcome(m, smtp_session(m, ""), None)

send_simple_email(m) ==
    mail_outcome(m, smtp_session(m, "send_message"),
                 [From |-> m.email_address, To |-> m.recipient_email,
                  Subject |-> m.subject, body |-> m.body, attachments |-> <<>>])

(***************************************************************************)
(* datetime: strptime and strftime with '%Y-%m-%d', and day arithmetic.    *)
(***************************************************************************)
digits == "0123456789"

IsDigits(s) == \A i \in 1..Len(s) : \E d \in 1..10 : CharAt(s, i) = CharAt(digits, d)

DigitValue(c) == (CHOOSE d \in 1..10 : CharAt(digits, d) = c) - 1

RECURSIVE ParseInt(_)
ParseInt(s) ==
    IF s = "" THEN 0
    ELSE 10 * ParseInt(SubSeq(s, 1, Len(s) - 1)) + DigitValue(CharAt(s, Len(s)))

\* '%04d' and '%02d'
RECURSIVE ZeroPad(_, _)
ZeroPad(n, width) ==
    IF width = 0 THEN ""
    ELSE ZeroPad(n \div 10, width - 1) \o CharAt(digits, (n % 10) + 1)

is_leap(y) == y % 4 = 0 /\ (y % 100 # 0 \/ y % 400 = 0)

days_in_month(y, m) ==
    IF m = 2 THEN (IF is_leap(y) THEN 29 ELSE 28)
    ELSE IF m \in {4, 6, 9, 11} THEN 30 ELSE 31

days_before_year(y) ==
    (y - 1) * 365 + (y - 1) \div 4 - (y - 1) \div 100 + (y - 1) \div 400

RECURSIVE days_before_month(_, _)
days_before_month(y, m) ==
    IF m = 1 THEN 0 ELSE days_before_month(y, m - 1) + days_in_month(y, m - 1)

\* date.toordinal()
toordinal(d) == days_before_year(d.year) + days_before_month(d.year, d.month) + d.day

\* date.fromordinal(n)
fromordinal(n) ==
    LET y == CHOOSE y \in (n \div 366)..(n \div 365 + 1) :
                 days_before_year(y) < n /\ n <= days_before_year(y + 1)
        rest == n - days_before_year(y)
        m == CHOOSE m \in 1..12 :
                 /\ days_before_month(y, m) < rest
                 /\ rest <= days_before_month(y, m) + days_in_month(y, m)
    IN  [year |-> y, month |-> m, day |-> rest - days_before_month(y, m)]

\* datetime.strptime(s, '%Y-%m-%d'): a date, or ValueError.
strptime(s) ==
    LET f == split(s, "-")
    IN  IF /\ Len(f) = 3
           /\ Len(f[1]) = 4 /\ Len(f[2]) \in {1, 2} /\ Len(f[3]) \in {1, 2}
           /\ \A i \in 1..3 : IsDigits(f[i])
           /\ ParseInt(f[1]) >= 1
           /\ ParseInt(f[2]) \in 1..12
           /\ ParseInt(f[3]) \in 1..days_in_month(ParseInt(f[1]), ParseInt(f[2]))
        THEN Ok([year |-> ParseInt(f[1]), month |-> ParseInt(f[2]), day |-> ParseInt(f[3])])
        ELSE Raise("ValueError")

\* d.strftime('%Y-%m-%d')
strftime(d) == ZeroPad(d.year, 4) \o "-" \o ZeroPad(d.month, 2) \o "-" \o ZeroPad(d.day, 2)

\* d + timedelta(days=n)
plus_days(d, n) == fromordinal(toordinal(d) + n)

(***************************************************************************)
(* AirtableTracker.                                                        *)
(*                                                                         *)
(* A call is a record t: whether a base id was given (initialised), the    *)
(* arguments, today's date, whether the store answers the request and      *)
(* whether standard output accepts print.  The table is a tuple of rows    *)
(* [id, fields].                                                           *)
(***************************************************************************)
MaxRecords == 2

\* d.get(key, default)
get(d, key, default) == IF key \in DOMAIN d THEN d[key] ELSE default

\* print(...); return False -- in a handler or before the try.
tracker_handler(t) == IF t.stdout_writable THEN Ok(FALSE) ELSE Raise("OSError")

\* `from datetime import datetime, timedelta` at line 83 makes datetime a local
\* name of the whole function, bound only once that line has run; line 74 reads
\* it before, for the default of 'Application Date', whatever the data holds.
datetime_bound_at_defaults == FALSE

record_id_of(n) == "rec" \o CharAt(digits, n + 1)

add_job_application(t, rows) ==
    LET application_data == t.application_data
        now == strptime(t.today).value
        record_data ==
            ("Company" :> get(application_data, "Company", ""))
            @@ ("Position" :> get(application_data, "Position", ""))
            @@ ("Status" :> get(application_data, "Status", "Applied"))
            @@ ("Application Date" :> get(application_data, "Application Date", strftime(now)))
            @@ ("Job Description URL" :> get(application_data, "Job Description URL", ""))
            @@ ("Notes" :> get(application_data, "Notes", ""))
            @@ ("Salary Range" :> get(application_data, "Salary Range", ""))
            @@ ("Contact Person" :> get(application_data, "Contact Person", ""))
        inserted ==
            IF "Follow-up Date" \notin DOMAIN application_data
            THEN setitem(record_data, "Follow-up Date", strftime(plus_days(now, 7)))
            ELSE record_data
        insert == <<<<"airtable", "insert">>>>
    IN  IF ~t.initialised THEN [out |-> tracker_handler(t), calls |-> <<>>, store |-> rows]
        ELSE IF ~datetime_bound_at_defaults
        THEN [out |-> tracker_handler(t), calls |-> <<>>, store |-> rows]
        ELSE IF ~t.store_ok THEN [out |-> tracker_handler(t), calls |-> insert, store |-> rows]
        ELSE [out |-> Ok(TRUE), calls |-> insert,
              store |-> Append(rows, [id |-> record_id_of(Len(rows) + 1), fields |-> inserted])]

update_application_status(t, rows) ==
    LET update_data ==
            IF t.notes # "" THEN ("Status" :> t.new_status) @@ ("Notes" :> t.notes)
            ELSE ("Status" :> t.new_status)
        update == <<<<"airtable", "update">>>>
        known == \E i \in 1..Len(rows) : rows[i].id = t.record_id
    IN  IF ~t.initialised THEN [out |-> Ok(FALSE), calls |-> <<>>, store |-> rows]
        ELSE IF ~t.store_ok \/ ~known
        THEN [out |-> tracker_handler(t), calls |-> update, store |-> rows]
        ELSE [out |-> Ok(TRUE), calls |-> update,
              store |-> [i \in 1..Len(rows) |->
                            IF rows[i].id = t.record_id
                            THEN [rows[i] EXCEPT !.fields = update_data @@ @]
                            ELSE rows[i]]]

get_all_applications(t, rows) ==
    LET get_all == <<<<"airtable", "get_all">>>>
    IN  IF ~t.initialised THEN [out |-> Ok(<<>>), calls |-> <<>>]
        ELSE IF ~t.store_ok
        THEN [out |-> IF t.stdout_writable THEN Ok(<<>>) ELSE Raise("OSError"),
              calls |-> get_all]
        ELSE [out |-> Ok([i \in 1..Len(rows) |-> rows[i].fields]), calls |-> get_all]

airtable_test_connection(t, rows) ==
    LET get_all == <<<<"airtable", "get_all">>>>
    IN  IF ~t.initialised THEN [out |-> Ok(FALSE), calls |-> <<>>]
        ELSE IF ~t.store_ok THEN [out |-> tracker_handler(t), calls |-> get_all]
        ELSE [out |-> Ok(TRUE), calls |-> get_all]

\* (datetime.now() - app_datetime).days <= 7, False where strptime raises.
is_recent(t, app) ==
    LET app_date == get(app, "Application Date", "")
    IN  /\ app_date # ""
        /\ strptime(app_date).status = "ok"
        /\ toordinal(strptime(t.today).value) - toordinal(strptime(app_date).value) <= 7

status_of(app) == get(app, "Status", "Unknown")

companies_of(applications) ==
    {get(applications[i], "Company", "") : i \in 1..Len(applications)} \ {""}

RECURSIVE RecentLoop(_, _, _)
RecentLoop(t, applications, k) ==
    IF k > Len(applications) THEN <<>>
    ELSE (IF is_recent(t, applications[k]) THEN <<applications[k]>> ELSE <<>>)
             \o RecentLoop(t, applications, k + 1)

\* The orders list(a_set) may give.
Orders(S) ==
    {o \in [1..Cardinality(S) -> S] : \A i, j \in 1..Cardinality(S) : o[i] = o[j] => i = j}

generate_application_summary(t, rows, order) ==
    LET got == get_all_applications(t, rows)
        applications == got.out.value
        summary ==
            [total_applications |-> Len(applications),
             status_breakdown |->
                 [s \in {status_of(applications[i]) : i \in 1..Len(applications)} |->
                     Cardinality({i \in 1..Len(applications) : status_of(applications[i]) = s})],
             companies_applied_to |-> order,
             recent_applications |-> RecentLoop(t, applications, 1)]
    IN  IF ~t.initialised THEN [out |-> Ok(empty_dict), calls |-> <<>>]
        ELSE IF got.out.status = "raise" THEN got
        ELSE IF Len(applications) = 0 THEN [out |-> Ok(empty_dict), calls |-> got.calls]
        ELSE [out |-> Ok(summary), calls |-> got.calls]

(***************************************************************************)
(* app.py, the 'Save to Airtable' button. A click is a record u: what the  *)
(* sidebar and the form hold, the date the date input gives, and what the  *)
(* outside answers.                                                        *)
(***************************************************************************)
\* base_id: str = None
NoBaseId == ""

\* AirtableTracker.__init__: the connection exists only with a base id.
AirtableTracker(api_key, base_id) ==
    [api_key |-> api_key, base_id |-> base_id, initialised |-> base_id # NoBaseId]

save_succeeded == [shown |-> "success", text |-> "Job application saved to Airtable!"]

save_failed ==
    [shown |-> "error",
     text |-> "Failed to save to Airtable. Check your API key and base configuration."]

save_refused ==
    [shown |-> "error", text |-> "Please provide Airtable API key, company name, and job title."]

\* The handler that builds its tracker with the base id given.
save_to_airtable_with(u, rows, base_id) ==
    LET t == AirtableTracker(u.airtable_api_key, base_id)
             @@ [application_data |->
                     ("Company" :> u.company_name) @@ ("Position" :> u.job_title)
                     @@ ("Status" :> "Applied")
                     @@ ("Application Date" :> u.application_date),
                 today |-> u.today, store_ok |-> u.store_ok,
                 stdout_writable |-> u.stdout_writable]
        result == add_job_application(t, rows)
    IN  IF u.airtable_api_key # "" /\ u.company_name # "" /\ u.job_title # ""
        THEN [out |-> IF result.out.status = "raise" THEN result.out
                      ELSE IF result.out.value THEN Ok(save_succeeded)
                      ELSE Ok(save_failed),
              calls |-> result.calls, store |-> result.store]
        ELSE [out |-> Ok(save_refused), calls |-> <<>>, store |-> rows]

\* tracker = AirtableTracker(airtable_api_key): no base id is passed.
save_to_airtable(u, rows) == save_to_airtable_with(u, rows, NoBaseId)

(***************************************************************************)
(* CoverLetterGenerator.analyze_job_match and customize_for_company: one   *)
(* request to the LLM each; an error of the request leaves the method.     *)
(***************************************************************************)
\* analyze_job_match that asks again when the request fails.
analyze_job_match_retrying(g) ==
    LET request == [kind |-> "analyze", resume_text |-> g.resume_text,
                    job_description |-> g.job_description]
    IN  [out |-> IF g.fails THEN Raise("GenerationError") ELSE Ok(g.reply),
         calls |-> IF g.fails THEN <<request, request>> ELSE <<request>>]

analyze_job_match(g) ==
    LET request == [kind |-> "analyze", resume_text |-> g.resume_text,
                    job_description |-> g.job_description]
    IN  [out |-> IF g.fails THEN Raise("GenerationError") ELSE Ok(g.reply),
         calls |-> <<request>>]

customize_for_company(g) ==
    LET request == [kind |-> "customize", base_cover_letter |-> g.base_cover_letter,
                    company_info |-> g.company_info]
    IN  IF g.company_info = "" THEN [out |-> Ok(g.base_cover_letter), calls |-> <<>>]
        ELSE [out |-> IF g.fails THEN Raise("GenerationError") ELSE Ok(g.reply),
              calls |-> <<request>>]

(***************************************************************************)
(* The answers the LLM may give.                                           *)
(***************************************************************************)
LetterChunks ==
    {"Dear Sir,", "[Your Name]", "Thank you", "SINCERELY,", "Best Regards",
     "\n\n", "dear all,", "I can code."}

LetterResponses == {Concat(c) : c \in SeqUpTo(LetterChunks, MaxLetterChunks)}

BulletLines ==
    {BULLET \o " Led X", "random prose", "- Built Y", "  * Did Z ", "", "\t-"}

BulletResponses == {join("\n", ls) : ls \in SeqUpTo(BulletLines, MaxBulletLines)}

ComposeBulletResponses ==
    {"", BULLET \o " Led X\nrandom prose\n- Built Y",
     "- A\n* B\nHere are more:\n" \o BULLET \o " C\n- D\n- A\n  - F \n* G"}

(***************************************************************************)
(* SpecLetter: one call of generate_cover_letter.                          *)
(***************************************************************************)
InitLetter ==
    /\ pc = "start"
    /\ calls = <<>>
    /\ bullet_response \in ComposeBulletResponses
    /\ letter_response \in LetterResponses
    /\ llm_fail \in 0..2
    /\ bullets = None
    /\ cover_letter = None
    /\ ParserIdle
    /\ ExtractIdle
    /\ ResearchIdle
    /\ MailIdle
    /\ TrackerIdle
    /\ GenerationIdle

GenerateCoverLetter ==
    /\ pc = "start"
    /\ LET r == generate_cover_letter(llm_fail, bullet_response, letter_response)
       IN  /\ cover_letter' = r.out
           /\ bullets' = r.bullets
           /\ calls' = r.calls
    /\ pc' = "done"
    /\ UNCHANGED <<bullet_response, letter_response, llm_fail, parserVars, extractVars, researchVars, mailVars, trackerVars, generationVars>>

NextLetter == GenerateCoverLetter

SpecLetter == InitLetter /\ [][NextLetter]_vars

(***************************************************************************)
(* SpecFormat: _format_cover_letter applied to a text, and then to its own *)
(* result.                                                                 *)
(***************************************************************************)
InitFormat ==
    /\ pc = "start"
    /\ calls = <<>>
    /\ bullet_response = ""
    /\ letter_response \in LetterResponses
    /\ llm_fail = 0
    /\ bullets = None
    /\ cover_letter = None
    /\ ParserIdle
    /\ ExtractIdle
    /\ ResearchIdle
    /\ MailIdle
    /\ TrackerIdle
    /\ GenerationIdle

FormatStep(text, next_pc) ==
    /\ cover_letter' = Ok(format_cover_letter(text))
    /\ pc' = next_pc
    /\ UNCHANGED <<calls, bullets, bullet_response, letter_response, llm_fail, parserVars,
                   extractVars, researchVars, mailVars, trackerVars, generationVars>>

FormatCoverLetter ==
    /\ pc = "start"
    /\ FormatStep(letter_response, "once")

FormatCoverLetterAgain ==
    /\ pc = "once"
    /\ FormatStep(cover_letter.value, "done")

NextFormat == FormatCoverLetter \/ FormatCoverLetterAgain

SpecFormat == InitFormat /\ [][NextFormat]_vars

(***************************************************************************)
(* SpecBullets: one call of extract_resume_bullets.                        *)
(***************************************************************************)
InitBullets ==
    /\ pc = "start"
    /\ calls = <<>>
    /\ bullet_response \in BulletResponses
    /\ letter_response = ""
    /\ llm_fail \in 0..1
    /\ bullets = None
    /\ cover_letter = None
    /\ ParserIdle
    /\ ExtractIdle
    /\ ResearchIdle
    /\ MailIdle
    /\ TrackerIdle
    /\ GenerationIdle

ExtractResumeBullets ==
    /\ pc = "start"
    /\ LET r == extract_resume_bullets(llm_fail = 1, bullet_response)
       IN  /\ bullets' = r.out
           /\ calls' = r.calls
    /\ pc' = "done"
    /\ UNCHANGED <<bullet_response, letter_response, llm_fail, cover_letter, parserVars, extractVars, researchVars, mailVars, trackerVars, generationVars>>

NextBullets == ExtractResumeBullets

SpecBullets == InitBullets /\ [][NextBullets]_vars

(***************************************************************************)
(* SpecSegment: one call of extract_key_sections.                          *)
(***************************************************************************)
LongLine == "I have professional experience in building many things."

\* A header of 8 characters inside a line of 52.
PaddedHeader == "  Projects                                          "

SegLines ==
    {"Experience", "Built a thing", "Skills & Education", "", "  Led a team ", LongLine,
     PaddedHeader}

\* Texts of up to MaxSegLines lines, at most one of them 50 characters or longer.
SegTexts ==
    {join("\n", ls) :
        ls \in {q \in SeqUpTo(SegLines, MaxSegLines) :
                  Cardinality({i \in 1..Len(q) : q[i] \in {LongLine, PaddedHeader}}) <= 1}}

InitSegment ==
    /\ pc = "start"
    /\ calls = <<>>
    /\ resume_text \in SegTexts
    /\ sections = None
    /\ found_skills = None
    /\ LetterIdle
    /\ ExtractIdle
    /\ ResearchIdle
    /\ MailIdle
    /\ TrackerIdle
    /\ GenerationIdle

ExtractKeySections ==
    /\ pc = "start"
    /\ sections' = Ok(extract_key_sections(resume_text))
    /\ pc' = "done"
    /\ UNCHANGED <<calls, resume_text, found_skills, letterVars, extractVars, researchVars, mailVars, trackerVars, generationVars>>

NextSegment == ExtractKeySections

SpecSegment == InitSegment /\ [][NextSegment]_vars

(***************************************************************************)
(* SpecSkills: one call of extract_skills_keywords.                        *)
(***************************************************************************)
SkillChunks ==
    {"Java", "script", " ", "MySQL", "Machine", "learning", "Node.JS and CI/CD"}

SkillTexts == {Concat(c) : c \in SeqUpTo(SkillChunks, MaxSkillChunks)}

InitSkills ==
    /\ pc = "start"
    /\ calls = <<>>
    /\ resume_text \in SkillTexts
    /\ sections = None
    /\ found_skills = None
    /\ LetterIdle
    /\ ExtractIdle
    /\ ResearchIdle
    /\ MailIdle
    /\ TrackerIdle
    /\ GenerationIdle

ExtractSkillsKeywords ==
    /\ pc = "start"
    /\ found_skills' = Ok(extract_skills_keywords(resume_text))
    /\ pc' = "done"
    /\ UNCHANGED <<calls, resume_text, sections, letterVars, extractVars, researchVars, mailVars, trackerVars, generationVars>>

NextSkills == ExtractSkillsKeywords

SpecSkills == InitSkills /\ [][NextSkills]_vars

(***************************************************************************)
(* SpecExtract: one call of extract_text.                                  *)
(***************************************************************************)
FileNames == {"cv.txt", "CV.TXT", "cv.pdf", "cv.docx", "cv.tar.gz", "resume"}

\* ' ', 'A', '\n', the two bytes of U+00E9, and a byte no UTF-8 text holds.
SampleBytes == {32, 65, 10, 195, 169, 255}

\* Texts of a page or a paragraph: '', 'A', ' A', 'A\n', '\n'.
PartTexts == {<<>>, <<65>>, <<32, 65>>, <<65, 10>>, <<10>>}

\* A file is bytes no document library reads, or a document whose bytes are no
\* UTF-8 text.
Files ==
    {[name |-> n, bytes |-> b, doc |-> Unreadable] :
        n \in FileNames, b \in SeqUpTo(SampleBytes, MaxBytes)}
    \cup {[name |-> n, bytes |-> <<255>>, doc |-> Readable(d)] :
        n \in FileNames, d \in SeqUpTo(PartTexts, MaxPages)}

InitExtract ==
    /\ pc = "start"
    /\ calls = <<>>
    /\ file \in Files
    /\ extracted = None
    /\ LetterIdle
    /\ ParserIdle
    /\ ResearchIdle
    /\ MailIdle
    /\ TrackerIdle
    /\ GenerationIdle

ExtractText ==
    /\ pc = "start"
    /\ extracted' = extract_text(file)
    /\ pc' = "done"
    /\ UNCHANGED <<calls, file, letterVars, parserVars, researchVars, mailVars, trackerVars, generationVars>>

NextExtract == ExtractText

SpecExtract == InitExtract /\ [][NextExtract]_vars

(***************************************************************************)
(* SpecResearch: one call of research_company.                             *)
(***************************************************************************)
Companies == {"Acme", "Initech Labs"}

LongSnippet ==
    LET ten == "Anvils & more. "
        hundred == ten \o ten \o ten \o ten \o ten \o ten \o ten
    IN  hundred \o hundred \o hundred

Failure == [raises |-> TRUE]
Answer(results) == [raises |-> FALSE, results |-> results]

GeneralAnswers ==
    {Failure,
     Answer([error |-> "Invalid API key."]),
     Answer([organic_results |-> <<>>]),
     Answer([organic_results |->
                <<[title |-> "Acme", snippet |-> "Acme makes anvils."],
                  [title |-> "Acme careers"],
                  [title |-> "Shop", snippet |-> LongSnippet],
                  [title |-> "Acme (disambiguation)", snippet |-> "Fourth."]>>])}

NewsAnswers ==
    {Failure,
     Answer([error |-> "Invalid API key."]),
     Answer([news_results |->
                <<[title |-> "Acme ships"], [link |-> "https://news.example/1"],
                  [title |-> "Acme hires"], [title |-> "Acme moves"]>>])}

CultureAnswers ==
    {Failure,
     Answer([organic_results |-> <<[snippet |-> "Acme makes anvils."]>>]),
     Answer([organic_results |->
                <<[snippet |-> "Our VALUES: safety first."], [title |-> "Jobs"],
                  [snippet |-> "A culture of care."]>>])}

Fillers ==
    [i \in 1..10 |-> "/url?q=https://example.org/&sa=U"]

Response(status_code, parses, body) ==
    [raises |-> FALSE, status_code |-> status_code, parses |-> parses] @@ body

Page(status_code, parses, links) == Response(status_code, parses, [links |-> links])

Pages ==
    {Failure,
     Page(429, TRUE, <<>>),
     Page(200, FALSE, <<>>),
     Page(200, TRUE, <<"/search?q=acme", "/url?q=https://example.org/&sa=U">>),
     Page(200, TRUE, <<"/search?q=acme",
                       "/url?q=https://en.wikipedia.org/wiki/Acme_Corporation&sa=U",
                       "/url?q=https://www.acme.com/&sa=U",
                       "/url?q=https://InitechLabs.io/about&ved=1">>),
     Page(200, TRUE, Append(Fillers, "/url?q=https://www.acme.com/&sa=U"))}

Site(status_code, parses, about_sections, news_links) ==
    Response(status_code, parses,
             [about_sections |-> about_sections, news_links |-> news_links])

Sites ==
    {Failure,
     Site(404, TRUE, <<>>, <<>>),
     Site(200, FALSE, <<>>, <<>>),
     Site(200, TRUE, <<>>, <<>>),
     Site(200, TRUE,
          <<"About us", "About us: we have made anvils of every size since 1949.",
            "Our mission is to be third.">>,
          <<"News", "Press room", "Announcements", "Newsletter">>)}

Envs ==
    [serpapi_key : {"", "sk-1"}, GoogleSearch : BOOLEAN,
     general : GeneralAnswers, news : NewsAnswers, culture : CultureAnswers,
     page : Pages, site : Sites, stdout_writable : BOOLEAN]

InitResearch ==
    /\ pc = "start"
    /\ calls = <<>>
    /\ company_name \in Companies
    /\ env \in Envs
    /\ company_info = default_company_info
    /\ brief = None
    /\ LetterIdle
    /\ ParserIdle
    /\ ExtractIdle
    /\ MailIdle
    /\ TrackerIdle
    /\ GenerationIdle

ResearchCompany ==
    /\ pc = "start"
    /\ LET r == research_company(company_name, env)
       IN  /\ brief' = r.out
           /\ company_info' = r.company_info
           /\ calls' = r.calls
    /\ pc' = "done"
    /\ UNCHANGED <<company_name, env, letterVars, parserVars, extractVars, mailVars, trackerVars, generationVars>>

NextResearch == ResearchCompany

SpecResearch == InitResearch /\ [][NextResearch]_vars

(***************************************************************************)
(* SpecMail: one call of a mail operation.                                 *)
(***************************************************************************)
SmtpSteps == {"connect", "starttls", "login", "send", "quit"}

AttachmentPaths == {"/home/ann/cv.pdf", "portfolio.zip"}

FileStates == {"missing", "unreadable", "readable"}

CoverLetters == {"Hello.", "[Your Name] asks [Company Name] for [Position]. [Your Name]"}

Senders ==
    [email_address : {"ann@example.com"}, smtp : [SmtpSteps -> BOOLEAN],
     password_accepted : BOOLEAN, stdout_writable : BOOLEAN,
     recipient_email : {"hr@acme.test"}, subject : {"Application"}]

MailCalls ==
    {[op |-> "test_connection"] @@ s : s \in Senders}
    \cup {[op |-> "send_simple_email", body |-> "Hello."] @@ s : s \in Senders}
    \cup {[op |-> "send_application_email", cover_letter |-> c,
           applicant_name |-> "Ann", position |-> "Engineer", company_name |-> "Acme",
           attachments |-> a, files |-> f] @@ s :
              s \in Senders, c \in CoverLetters,
              a \in SeqUpTo(AttachmentPaths, MaxAttachments),
              f \in [AttachmentPaths -> FileStates]}

InitMail ==
    /\ pc = "start"
    /\ calls = <<>>
    /\ mail \in MailCalls
    /\ outbox = <<>>
    /\ sent = None
    /\ LetterIdle
    /\ ParserIdle
    /\ ExtractIdle
    /\ ResearchIdle
    /\ TrackerIdle
    /\ GenerationIdle

MailStep(r) ==
    /\ sent' = r.out
    /\ calls' = r.calls
    /\ outbox' = r.outbox
    /\ pc' = "done"
    /\ UNCHANGED <<mail, letterVars, parserVars, extractVars, researchVars, trackerVars, generationVars>>

SendApplicationEmail ==
    /\ pc = "start"
    /\ mail.op = "send_application_email"
    /\ MailStep(send_application_email(mail))

SendSimpleEmail ==
    /\ pc = "start"
    /\ mail.op = "send_simple_email"
    /\ MailStep(send_simple_email(mail))

TestConnection ==
    /\ pc = "start"
    /\ mail.op = "test_connection"
    /\ MailStep(test_connection(mail))

NextMail == SendApplicationEmail \/ SendSimpleEmail \/ TestConnection

SpecMail == InitMail /\ [][NextMail]_vars

(***************************************************************************)
(* SpecTracker: one call of a tracking operation.                          *)
(***************************************************************************)
Todays == {"2024-03-03", "2025-01-02"}

\* The fields of a stored row: with and without Status, Company and
\* Application Date; dates 3, 7 and 8 days before 2024-03-03, a day after it,
\* and texts that are no date.
SampleFields ==
    {("Company" :> "Acme") @@ ("Status" :> "Applied") @@ ("Application Date" :> "2024-02-29"),
     ("Company" :> "Acme") @@ ("Status" :> "Offer") @@ ("Application Date" :> "2024-02-25"),
     ("Company" :> "Initech") @@ ("Application Date" :> "2024-02-24"),
     ("Company" :> "") @@ ("Status" :> "Applied") @@ ("Application Date" :> "2024-03-04"),
     ("Status" :> "Rejected") @@ ("Application Date" :> "2023-02-29"),
     ("Company" :> "Initech") @@ ("Status" :> "Applied"),
     ("Company" :> "Globex") @@ ("Status" :> "Applied") @@ ("Application Date" :> "2024-12-26"),
     ("Company" :> "Acme") @@ ("Position" :> "Engineer") @@ ("Application Date" :> "")}

Stores ==
    {[i \in 1..Len(f) |-> [id |-> record_id_of(i), fields |-> f[i]]] :
        f \in SeqUpTo(SampleFields, MaxRecords)}

SampleApplications ==
    {("Company" :> "Acme") @@ ("Position" :> "Engineer") @@ ("Status" :> "Applied")
         @@ ("Application Date" :> "2024-02-20"),
     ("Company" :> "Acme") @@ ("Position" :> "Engineer")
         @@ ("Application Date" :> "2024-02-20") @@ ("Follow-up Date" :> "2024-04-01"),
     ("Company" :> "Acme") @@ ("Position" :> "Engineer"),
     ("Company" :> "Acme") @@ ("Follow-up Date" :> "2024-04-01")}

Trackers == [initialised : BOOLEAN, store_ok : BOOLEAN, stdout_writable : BOOLEAN]

TrackerCalls ==
    {[op |-> "add_job_application", application_data |-> a, today |-> d] @@ s :
        s \in Trackers, a \in SampleApplications, d \in Todays}
    \cup {[op |-> "update_application_status", record_id |-> r, new_status |-> "Offer",
           notes |-> n] @@ s :
        s \in Trackers, r \in {"rec1", "rec9"}, n \in {"", "They called."}}
    \cup {[op |-> "get_all_applications"] @@ s : s \in Trackers}
    \cup {[op |-> "test_connection"] @@ s : s \in Trackers}
    \cup {[op |-> "generate_application_summary", today |-> d] @@ s :
        s \in Trackers, d \in Todays}

InitTracker ==
    /\ pc = "start"
    /\ calls = <<>>
    /\ tracker \in TrackerCalls
    /\ store \in Stores
    /\ tracked = None
    /\ LetterIdle
    /\ ParserIdle
    /\ ExtractIdle
    /\ ResearchIdle
    /\ MailIdle
    /\ GenerationIdle

TrackerStep(r, rows) ==
    /\ tracked' = r.out
    /\ calls' = r.calls
    /\ store' = rows
    /\ pc' = "done"
    /\ UNCHANGED <<tracker, letterVars, parserVars, extractVars, researchVars, mailVars, generationVars>>

AddJobApplication ==
    /\ pc = "start"
    /\ tracker.op = "add_job_application"
    /\ LET r == add_job_application(tracker, store) IN TrackerStep(r, r.store)

UpdateApplicationStatus ==
    /\ pc = "start"
    /\ tracker.op = "update_application_status"
    /\ LET r == update_application_status(tracker, store) IN TrackerStep(r, r.store)

GetAllApplications ==
    /\ pc = "start"
    /\ tracker.op = "get_all_applications"
    /\ TrackerStep(get_all_applications(tracker, store), store)

AirtableTestConnection ==
    /\ pc = "start"
    /\ tracker.op = "test_connection"
    /\ TrackerStep(airtable_test_connection(tracker, store), store)

\* The applications the store hands to the summary.
Listed(t, rows) ==
    LET got == get_all_applications(t, rows)
    IN  IF got.out.status = "ok" THEN got.out.value ELSE <<>>

GenerateApplicationSummary ==
    /\ pc = "start"
    /\ tracker.op = "generate_application_summary"
    /\ \E order \in Orders(companies_of(Listed(tracker, store))) :
           TrackerStep(generate_application_summary(tracker, store, order), store)

NextTracker ==
    \/ AddJobApplication
    \/ UpdateApplicationStatus
    \/ GetAllApplications
    \/ AirtableTestConnection
    \/ GenerateApplicationSummary

SpecTracker == InitTracker /\ [][NextTracker]_vars

(***************************************************************************)
(* SpecSave: one click on 'Save to Airtable'.                              *)
(***************************************************************************)
SaveClicks ==
    [op : {"save_to_airtable"}, airtable_api_key : {"", "keyXYZ"},
     company_name : {"", "Acme"}, job_title : {"", "Engineer"},
     application_date : Todays, today : Todays,
     store_ok : BOOLEAN, stdout_writable : BOOLEAN]

InitSave ==
    /\ pc = "start"
    /\ calls = <<>>
    /\ tracker \in SaveClicks
    /\ store \in Stores
    /\ tracked = None
    /\ LetterIdle
    /\ ParserIdle
    /\ ExtractIdle
    /\ ResearchIdle
    /\ MailIdle
    /\ GenerationIdle

SaveToAirtable ==
    /\ pc = "start"
    /\ tracker.op = "save_to_airtable"
    /\ LET r == save_to_airtable(tracker, store) IN TrackerStep(r, r.store)

NextSave == SaveToAirtable

SpecSave == InitSave /\ [][NextSave]_vars

(***************************************************************************)
(* SpecFlags: one call of an operation that answers with a success flag,   *)
(* a mail operation or a tracking operation.                               *)
(***************************************************************************)
InitFlags == InitMail \/ InitTracker

NextFlags ==
    \/ (mail # None /\ NextMail)
    \/ (tracker # None /\ NextTracker)

SpecFlags == InitFlags /\ [][NextFlags]_vars

(***************************************************************************)
(* SpecGeneration: one call of analyze_job_match or customize_for_company. *)
(***************************************************************************)
Replies == {"", "Match: 80%", "Dear Sir,\n\nI admire Acme.\n\nSincerely,\nAnn"}

GenerationCalls ==
    {[op |-> "analyze_job_match", resume_text |-> r, job_description |-> j,
      reply |-> a, fails |-> f] :
        r \in {"", "Built a thing"}, j \in {"", "Engineer wanted"},
        a \in Replies, f \in BOOLEAN}
    \cup {[op |-> "customize_for_company", base_cover_letter |-> b, company_info |-> c,
           reply |-> a, fails |-> f] :
        b \in {"", "Dear Sir,\n\nHire me."}, c \in {"", disclaimer("Acme"), "Acme makes anvils."},
        a \in Replies, f \in BOOLEAN}

InitGeneration ==
    /\ pc = "start"
    /\ calls = <<>>
    /\ generation \in GenerationCalls
    /\ generated = None
    /\ LetterIdle
    /\ ParserIdle
    /\ ExtractIdle
    /\ ResearchIdle
    /\ MailIdle
    /\ TrackerIdle

GenerationStep(r) ==
    /\ generated' = r.out
    /\ calls' = r.calls
    /\ pc' = "done"
    /\ UNCHANGED <<generation, letterVars, parserVars, extractVars, researchVars,
                   mailVars, trackerVars>>

AnalyzeJobMatch ==
    /\ pc = "start"
    /\ generation.op = "analyze_job_match"
    /\ GenerationStep(analyze_job_match(generation))

CustomizeForCompany ==
    /\ pc = "start"
    /\ generation.op = "customize_for_company"
    /\ GenerationStep(customize_for_company(generation))

NextGeneration == AnalyzeJobMatch \/ CustomizeForCompany

SpecGeneration == InitGeneration /\ [][NextGeneration]_vars

(***************************************************************************)
(* SpecRequests: one call of any operation that talks to the outside: the  *)
(* generator's four, research, the mail operations, the tracking ones.     *)
(***************************************************************************)
InitRequests ==
    \/ InitLetter
    \/ InitBullets
    \/ InitGeneration
    \/ InitResearch
    \/ InitMail
    \/ InitTracker

GeneratorCalled == GenerationIdle /\ ResearchIdle /\ MailIdle /\ TrackerIdle

NextRequests ==
    \/ (GeneratorCalled /\ NextLetter)
    \/ (GeneratorCalled /\ NextBullets)
    \/ (generation # None /\ NextGeneration)
    \/ (env # None /\ NextResearch)
    \/ (mail # None /\ NextMail)
    \/ (tracker # None /\ NextTracker)

SpecRequests == InitRequests /\ [][NextRequests]_vars

(***************************************************************************)
(* Claims about the cover letter generator.                                *)
(***************************************************************************)
LetterReturned == pc = "done" /\ cover_letter.status = "ok"

\* C1: whatever the composition request answered, the letter that
\* generate_cover_letter returns contains one of the closing phrases
\* (case-insensitive) and contains '[Your Name]' or 'Dear'.
C1_LetterHasClosingAndHeader ==
    LetterReturned =>
        /\ \E k \in 1..Len(closings) : contains(lower(cover_letter.value), closings[k])
        /\ contains(cover_letter.value, "[Your Name]") \/ contains(cover_letter.value, "Dear")

\* C1's case: an answer of whitespace only, which got both blocks.
C1_Witness ==
    /\ LetterReturned
    /\ letter_response = "\n\n"
    /\ startswith(cover_letter.value, "[Your Name]")
    /\ contains(cover_letter.value, "Sincerely,")

\* The blank lines of a text: where "\n\n" starts.
Gaps(text) == {i \in 1..(Len(text) - 1) : SubSeq(text, i, i + 1) = "\n\n"}

LastGap(text) == CHOOSE i \in Gaps(text) : \A j \in Gaps(text) : j <= i

\* The text after the last blank line of a letter (the whole letter without one).
LastBlock(text) ==
    IF Gaps(text) = {} THEN text ELSE SubSeq(text, LastGap(text) + 2, Len(text))

\* The final block of a letter; a signature of its own ('[Your Name]' after a
\* blank line) belongs to the block before it.
FinalBlock(text) ==
    IF Gaps(text) # {} /\ strip(LastBlock(text)) = "[Your Name]"
    THEN LastBlock(SubSeq(text, 1, LastGap(text) - 1)) \o "\n\n" \o LastBlock(text)
    ELSE LastBlock(text)

\* C2: every returned letter begins with '[Your Name]' or 'Dear' and ends with
\* a closing pattern: a closing phrase stands in its final block.
C2_LetterBeginsAndEndsWithPatterns ==
    LetterReturned =>
        /\ startswith(cover_letter.value, "[Your Name]") \/ startswith(cover_letter.value, "Dear")
        /\ \E k \in 1..Len(closings) : contains(lower(FinalBlock(cover_letter.value)), closings[k])

\* The half of C2 the code keeps: the letter begins with the header or salutation.
LetterBeginsWithHeader ==
    LetterReturned =>
        startswith(cover_letter.value, "[Your Name]") \/ startswith(cover_letter.value, "Dear")

(***************************************************************************)
(* Claims about the bullet selector.                                       *)
(***************************************************************************)
BulletsReturned == pc = "done" /\ bullets.status = "ok"

\* The lines of the answer that qualify: trimmed, they begin with a marker.
QualifyingLines(content) ==
    LET lines == split(content, "\n")
    IN  {i \in 1..Len(lines) :
            \E m \in {BULLET, "-", "*"} : \E j \in 1..Len(lines[i]) :
                /\ CharAt(lines[i], j) = m
                /\ \A h \in 1..(j - 1) : CharAt(lines[i], h) \in Whitespace}

\* C5: extract_resume_bullets returns exactly the trimmed qualifying lines of the
\* answer, in their order and with duplicates kept; with no qualifying line it
\* returns the empty sequence, and it raises only when the request failed.
C5_BulletsAreTheQualifyingLines ==
    /\ (pc = "done" /\ llm_fail = 0) => bullets.status = "ok"
    /\ BulletsReturned =>
        LET lines == split(bullet_response, "\n")
            q == QualifyingLines(bullet_response)
        IN  /\ Len(bullets.value) = Cardinality(q)
            /\ \A i \in q : bullets.value[Cardinality({j \in q : j <= i})] = strip(lines[i])
            /\ (q = {}) => bullets.value = <<>>
    /\ (BulletsReturned /\ bullet_response = BULLET \o " Led X\nrandom prose\n- Built Y")
          => bullets.value = <<BULLET \o " Led X", "- Built Y">>

\* C5's case: an answer with an indented marker line and the same line twice.
C5_Witness ==
    /\ BulletsReturned
    /\ bullet_response = "  * Did Z \nrandom prose\n  * Did Z "
    /\ bullets.value = <<"* Did Z", "* Did Z">>

(***************************************************************************)
(* Claims about the section segmenter.                                     *)
(***************************************************************************)
Segmented == pc = "done" /\ sections.status = "ok"

\* The lowered line holds a keyword of section s.
HoldsKeyword(low, s) ==
    \E w \in 1..Len(section_keywords[s]) : contains(low, section_keywords[s][w])

\* A line recognised as a section header: short, and with a keyword of a
\* section in any case.
IsHeaderLine(line) ==
    LET low == lower(line)
    IN  Len(strip(line)) < 50 /\ \E s \in section_names : HoldsKeyword(low, s)

\* C3: extract_key_sections returns a mapping whose keys are exactly the six
\* section names; with no header line in the input every value is empty.
C3_SixKeysAndEmptyWithoutHeader ==
    Segmented =>
        LET lines == split(resume_text, "\n")
        IN  /\ DOMAIN sections.value =
                   {"contact", "summary", "experience", "education", "skills", "projects"}
            /\ (\A i \in 1..Len(lines) : ~IsHeaderLine(lines[i]))
                   => \A s \in DOMAIN sections.value : sections.value[s] = ""

\* C3's case: content lines and a long line with keywords, and no header line.
C3_Witness ==
    /\ Segmented
    /\ resume_text = "Built a thing\n" \o LongLine \o "\n  Led a team "
    /\ \A s \in section_names : sections.value[s] = ""

\* The section a header line opens: the first, in the fixed order, it matches.
HeaderSection(line) ==
    LET low == lower(line)
    IN  section_order[CHOOSE k \in 1..Len(section_order) :
                          /\ HoldsKeyword(low, section_order[k])
                          /\ \A h \in 1..(k - 1) : ~HoldsKeyword(low, section_order[h])]

\* What the segmenter makes of each line: a header (and of which section), a
\* content line, or neither.
LineFacts(lines) ==
    [i \in 1..Len(lines) |->
        LET h == IsHeaderLine(lines[i])
        IN  [header |-> h,
             section |-> IF h THEN HeaderSection(lines[i]) ELSE NoSection,
             content |-> ~h /\ strip(lines[i]) # ""]]

\* The most recent header line above line i (0 without one).
HeaderAbove(facts, i) ==
    LET hs == {j \in 1..(i - 1) : facts[j].header}
    IN  IF hs = {} THEN 0 ELSE CHOOSE j \in hs : \A h \in hs : h <= j

\* A content line under a header.
Governed(facts, i) == facts[i].content /\ HeaderAbove(facts, i) # 0

SectionOfLine(facts, i) == facts[HeaderAbove(facts, i)].section

\* A later header line of the same section is followed by content of its own.
Replaced(facts, i) ==
    \E j \in (i + 1)..Len(facts) :
        /\ facts[j].header
        /\ facts[j].section = SectionOfLine(facts, i)
        /\ \E c \in (j + 1)..Len(facts) : facts[c].content /\ HeaderAbove(facts, c) = j

\* The lines stored under section s.
StoredLines(s) ==
    IF sections.value[s] = "" THEN {}
    ELSE LET stored == split(sections.value[s], "\n")
         IN  {stored[k] : k \in 1..Len(stored)}

SegmentExample ==
    resume_text = "Experience\nBuilt a thing" =>
        sections.value = [empty_sections EXCEPT !.experience = "Built a thing"]

\* What is stored under a section is, verbatim, a content line under a header
\* of that section.
StoredOnlyUnderOwnSection(lines, facts) ==
    \A s \in section_names : \A l \in StoredLines(s) :
        \E i \in 1..Len(lines) :
            Governed(facts, i) /\ SectionOfLine(facts, i) = s /\ lines[i] = l

\* C4 as stated: 'Experience' then 'Built a thing' gives experience = 'Built a
\* thing' and the rest empty; every non-blank, non-header line is stored verbatim
\* under the section of the most recent header above it, and nowhere else.
C4_EveryContentLineStored ==
    Segmented =>
        \A lines \in {split(resume_text, "\n")} : \A facts \in {LineFacts(lines)} :
            /\ SegmentExample
            /\ \A i \in 1..Len(lines) :
                   Governed(facts, i) => lines[i] \in StoredLines(SectionOfLine(facts, i))
            /\ StoredOnlyUnderOwnSection(lines, facts)

\* C4 amended: the same, for the lines that no later occurrence of their section
\* with content of its own replaces.
C4_ContentLineStoredUnlessReplaced ==
    Segmented =>
        \A lines \in {split(resume_text, "\n")} : \A facts \in {LineFacts(lines)} :
            /\ SegmentExample
            /\ \A i \in 1..Len(lines) :
                   (Governed(facts, i) /\ ~Replaced(facts, i))
                       => lines[i] \in StoredLines(SectionOfLine(facts, i))
            /\ StoredOnlyUnderOwnSection(lines, facts)

\* C4's case: a section opened twice; the later content line is stored with its
\* spaces and case, the earlier one is gone.
C4_Witness ==
    /\ Segmented
    /\ resume_text = "Experience\nBuilt a thing\nExperience\n  Led a team "
    /\ sections.value = [empty_sections EXCEPT !.experience = "  Led a team "]

(***************************************************************************)
(* Claims about the skill extractor.                                       *)
(***************************************************************************)
SkillsReturned == pc = "done" /\ found_skills.status = "ok"

\* The title-cased label of each vocabulary entry, in vocabulary order.
skill_labels ==
    <<"Python", "Java", "Javascript", "React", "Node.Js", "Sql", "Mysql", "Postgresql",
      "Mongodb", "Aws", "Azure", "Docker", "Kubernetes", "Git", "Html", "Css",
      "Machine Learning", "Data Science", "Tensorflow", "Pytorch", "Pandas", "Numpy",
      "Api", "Rest", "Graphql", "Agile", "Scrum", "Ci/Cd", "Devops", "Linux",
      "Project Management", "Leadership", "Communication", "Problem Solving">>

LabelIndex(label) == CHOOSE k \in 1..Len(skill_labels) : skill_labels[k] = label

\* C6: extract_skills_keywords returns the labels of exactly the vocabulary
\* entries that occur in the text in any case, in vocabulary order and none
\* twice; for the empty text it returns the empty sequence.
C6_SkillsAreTheVocabularyMatches ==
    SkillsReturned =>
        LET found == found_skills.value
        IN  /\ \A m \in 1..Len(found) : \E k \in 1..Len(skill_labels) : found[m] = skill_labels[k]
            /\ \A k \in 1..Len(common_skills) :
                   contains(lower(resume_text), common_skills[k])
                       <=> \E m \in 1..Len(found) : found[m] = skill_labels[k]
            /\ \A m, n \in 1..Len(found) :
                   m < n => LabelIndex(found[m]) < LabelIndex(found[n])
            /\ (resume_text = "") => found = <<>>

\* C6's case: 'java' inside 'JavaScript', and a label whose title-casing shows.
C6_Witness ==
    /\ SkillsReturned
    /\ resume_text = "JavascriptNode.JS and CI/CD"
    /\ found_skills.value = <<"Java", "Javascript", "Node.Js", "Ci/Cd">>

(***************************************************************************)
(* Claims about the document extractor.                                    *)
(***************************************************************************)
Extracted == pc = "done"

\* The extension of a file name, lowercased: what follows its last dot (the
\* whole name without a dot, as the code reads it).
ExtensionOf(name) ==
    LET dots == {i \in 1..Len(name) : CharAt(name, i) = "."}
    IN  IF dots = {} THEN lower(name)
        ELSE lower(SubSeq(name, (CHOOSE i \in dots : \A j \in dots : j <= i) + 1, Len(name)))

\* The UTF-8 encoding of a text.
EncodeOne(c) ==
    IF c < 128 THEN <<c>>
    ELSE IF c < 2048 THEN <<192 + (c \div 64), 128 + (c % 64)>>
    ELSE IF c < 65536
    THEN <<224 + (c \div 4096), 128 + ((c \div 64) % 64), 128 + (c % 64)>>
    ELSE <<240 + (c \div 262144), 128 + ((c \div 4096) % 64),
           128 + ((c \div 64) % 64), 128 + (c % 64)>>

RECURSIVE utf8_encode(_)
utf8_encode(text) ==
    IF text = <<>> THEN <<>> ELSE EncodeOne(text[1]) \o utf8_encode(Tail(text))

\* The bytes are the encoding of a text (of ' ', 'A', '\n' and U+00E9, the
\* characters that the sample bytes can encode).
ValidUtf8(bs) == \E t \in SeqUpTo({32, 65, 10, 233}, Len(bs)) : utf8_encode(t) = bs

\* The kind of the error that leaves extract_text, in the terms of the error
\* taxonomy: ValueError is the unsupported format, UnicodeDecodeError the
\* decoding failure, the re-raised Exception the extraction failure.
ErrorKind(outcome) ==
    CASE outcome.error = "ValueError" -> "UnsupportedFormatError"
      [] outcome.error = "UnicodeDecodeError" -> "DecodeError"
      [] outcome.error = "Exception" -> "ExtractionError"

\* C7: extract_text fails with the kind of its cause: UnsupportedFormatError
\* for an extension outside txt, docx, pdf; DecodeError for plain-text bytes that
\* are not UTF-8; ExtractionError carrying the cause when the document library
\* fails; and a failure returns no text.
C7_ErrorKindFollowsCause ==
    Extracted =>
        LET ext == ExtensionOf(file.name)
        IN  /\ ext \notin {"txt", "docx", "pdf"} =>
                   extracted.status = "raise" /\ ErrorKind(extracted) = "UnsupportedFormatError"
            /\ (ext = "txt" /\ ~ValidUtf8(file.bytes)) =>
                   extracted.status = "raise" /\ ErrorKind(extracted) = "DecodeError"
            /\ (ext \in {"docx", "pdf"} /\ ~file.doc.readable) =>
                   /\ extracted.status = "raise"
                   /\ ErrorKind(extracted) = "ExtractionError"
                   /\ extracted.context = "LibraryError"
            /\ extracted.status = "raise" => "value" \notin DOMAIN extracted

\* What the code keeps of C7: every failure raises, returns no text, and carries
\* its cause as the context of one and the same kind of error.
ExtractFailuresRaiseOneKind ==
    Extracted =>
        LET ext == ExtensionOf(file.name)
            failing == \/ ext \notin {"txt", "docx", "pdf"}
                       \/ ext = "txt" /\ ~ValidUtf8(file.bytes)
                       \/ ext \in {"docx", "pdf"} /\ ~file.doc.readable
        IN  /\ failing <=> extracted.status = "raise"
            /\ extracted.status = "raise" =>
                   /\ extracted.error = "Exception"
                   /\ "value" \notin DOMAIN extracted
                   /\ extracted.context \in {"ValueError", "UnicodeDecodeError", "LibraryError"}

\* C8: for a txt file of valid UTF-8 bytes extract_text returns the decoded
\* text unchanged (encoding it gives the bytes back, whitespace included); for a
\* docx or pdf file the text returned neither begins nor ends with whitespace.
C8_TxtVerbatimDocumentsTrimmed ==
    Extracted =>
        LET ext == ExtensionOf(file.name)
        IN  /\ (ext = "txt" /\ ValidUtf8(file.bytes)) =>
                   extracted.status = "ok" /\ utf8_encode(extracted.value) = file.bytes
            /\ (ext \in {"docx", "pdf"} /\ extracted.status = "ok") =>
                   \/ extracted.value = <<>>
                   \/ /\ extracted.value[1] \notin {9, 10, 11, 12, 13, 32}
                      /\ extracted.value[Len(extracted.value)] \notin {9, 10, 11, 12, 13, 32}

\* C8's case: a text file that begins with a blank line.
C8_Witness ==
    /\ Extracted
    /\ file = [name |-> "CV.TXT", bytes |-> <<10, 195, 169>>, doc |-> Unreadable]
    /\ extracted = Ok(<<10, 233>>)

\* The call of generate_cover_letter has ended, with a letter or an error.
ComposeEnded == pc = "done" /\ cover_letter # None

FirstFive(selected) ==
    [i \in 1..(IF Len(selected) < 5 THEN Len(selected) ELSE 5) |-> selected[i]]

\* C15: compose issues the bullet-selection request first and then exactly one
\* composition request, whose achievements are the first 5 selected bullets
\* (all when fewer, none when there are none) in their order; when the
\* bullet-selection request fails no composition request is issued and the
\* failure reaches the caller.
C15_TwoRequestsFirstFiveBullets ==
    ComposeEnded =>
        /\ Len(calls) >= 1
        /\ calls[1] = [kind |-> "bullets"]
        /\ IF llm_fail = 1
           THEN Len(calls) = 1 /\ cover_letter.status = "raise" /\ bullets.status = "raise"
           ELSE /\ Len(calls) = 2
                /\ calls[2] = [kind |-> "compose",
                               achievements |-> join("\n", FirstFive(bullets.value))]

\* Seven bullets were selected and the composition request holds five.
C15_Witness ==
    /\ ComposeEnded
    /\ bullets.status = "ok"
    /\ Len(bullets.value) = 7
    /\ Len(calls) = 2
    /\ calls[2].achievements = "- A\n* B\n" \o BULLET \o " C\n- D\n- A"

\* The content lines that belong to the header at line j, in order.
RECURSIVE ContentFrom(_, _, _, _)
ContentFrom(lines, facts, j, c) ==
    IF c > Len(lines) THEN <<>>
    ELSE (IF facts[c].content /\ HeaderAbove(facts, c) = j THEN <<lines[c]>> ELSE <<>>)
             \o ContentFrom(lines, facts, j, c + 1)

ContentUnder(lines, facts, j) == ContentFrom(lines, facts, j, j + 1)

\* The last header line of the text (0 without one).
LastHeader(facts) == HeaderAbove(facts, Len(facts) + 1)

\* C16: a line is a section header exactly when its stripped length is under
\* 50 and its lowercased form holds a keyword of some section; of several
\* sections the first in the order contact, summary, experience, education,
\* skills, projects is chosen wherever the keywords stand; the header line is
\* never part of a section's content.
C16_HeaderRecognitionAndTieBreak ==
    Segmented =>
        \A lines \in {split(resume_text, "\n")} : \A facts \in {LineFacts(lines)} :
            /\ \A s \in section_names : \A l \in StoredLines(s) : ~IsHeaderLine(l)
            /\ \A j \in {LastHeader(facts)} \ {0} :
                   ContentUnder(lines, facts, j) # <<>> =>
                       sections.value[HeaderSection(lines[j])]
                           = join("\n", ContentUnder(lines, facts, j))

\* A header with keywords of two sections, 'skills' standing first in the
\* line, opens education; a line of 52 characters that strips to 8 is a header.
C16_Witness ==
    /\ Segmented
    /\ resume_text = "Skills & Education\nBuilt a thing\n" \o PaddedHeader
                          \o "\n  Led a team "
    /\ Len(PaddedHeader) >= header_limit
    /\ sections.value =
           [empty_sections EXCEPT !.education = "Built a thing",
                                  !.projects = "  Led a team "]

\* The header lines of section s that have content of their own.
OpenedWithContent(lines, facts, s) ==
    {j \in 1..Len(lines) :
        facts[j].header /\ facts[j].section = s /\ ContentUnder(lines, facts, j) # <<>>}

\* C17: a flush with a non-empty buffer replaces what the section held and a
\* flush with an empty buffer changes nothing, so a section ends as the
\* newline-joined lines of its last occurrence that had a content line.
C17_LastOccurrenceWithContentWins ==
    Segmented =>
        \A lines \in {split(resume_text, "\n")} : \A facts \in {LineFacts(lines)} :
            \A s \in section_names :
                LET opened == OpenedWithContent(lines, facts, s)
                IN  sections.value[s] =
                        IF opened = {} THEN ""
                        ELSE join("\n", ContentUnder(lines, facts,
                                 CHOOSE j \in opened : \A h \in opened : h <= j))

\* A section opened three times: the second occurrence has no content, the
\* third replaces the first.
C17_Witness ==
    /\ Segmented
    /\ resume_text = "Experience\nBuilt a thing\nExperience\nExperience"
    /\ sections.value = [empty_sections EXCEPT !.experience = "Built a thing"]

(***************************************************************************)
(* Claims about the company researcher.                                    *)
(***************************************************************************)
ResearchReturned == pc = "done" /\ env # None

\* C9: research_company never raises past its boundary: for every company
\* name, with or without a credential, and whatever fails (the search client,
\* its import, a page request, an HTML parse), the call returns a string.
C9_ResearchAlwaysReturnsString ==
    ResearchReturned => (brief.status = "ok" /\ brief.value \in STRING)

\* The search client was not importable, the handler's own print failed, and
\* the call still returned a string.
C9_Witness ==
    /\ ResearchReturned
    /\ env.serpapi_key # ""
    /\ ~env.GoogleSearch
    /\ ~env.stdout_writable
    /\ brief = Ok(disclaimer(company_name))

AllFacetsAbsent ==
    /\ company_info.basic_info = ""
    /\ company_info.recent_news = <<>>
    /\ company_info.company_culture = ""

\* C10: whenever all facets (overview, news, culture) are absent -- as when no
\* credential is configured and scraping obtains nothing -- the result is the
\* minimal disclaimer string and not a formatted research brief.
C10_AbsentFacetsYieldDisclaimer ==
    (ResearchReturned /\ AllFacetsAbsent) => brief = Ok(disclaimer(company_name))

\* What does hold of a result without facets: it is the disclaimer or a brief
\* of a title and the closing note, and either way names the company.
AbsentFacetsYieldDisclaimerOrBareBrief ==
    (ResearchReturned /\ AllFacetsAbsent) =>
        /\ brief \in {Ok(disclaimer(company_name)),
                      Ok(format_company_info(company_name, default_company_info))}
        /\ contains(brief.value, company_name)

\* A search query of this call failed: the client was missing, or one of the
\* queries the call reached raised.
SearchFailed ==
    /\ env.serpapi_key # ""
    /\ \/ ~env.GoogleSearch
       \/ env.general.raises
       \/ env.news.raises
       \/ env.culture.raises

ScrapingAttempted == \E i \in 1..Len(calls) : calls[i][1] = "GET"

\* C11: the scraping path is attempted both when the credential is absent and
\* when a credentialed search query fails, before research gives up.
C11_ScrapingFollowsFailedSearch ==
    (ResearchReturned /\ (env.serpapi_key = "" \/ SearchFailed)) => ScrapingAttempted

\* What does hold: scraping is attempted exactly when no credential is set.
ScrapingOnlyWithoutCredential ==
    ResearchReturned => (ScrapingAttempted <=> env.serpapi_key = "")

(***************************************************************************)
(* Claims about the mail and tracking operations.                          *)
(***************************************************************************)
MailReturned == pc = "done" /\ mail # None

TrackingReturned ==
    /\ pc = "done"
    /\ tracker # None
    /\ tracker.op \in {"add_job_application", "update_application_status"}

Dispatches == mail.op # "test_connection"

\* A connection, TLS, authentication or send failure of this call.
SmtpFailure ==
    \/ ~mail.smtp.connect
    \/ ~mail.smtp.starttls
    \/ ~(mail.smtp.login /\ mail.password_accepted)
    \/ (Dispatches /\ ~mail.smtp.send)

\* An attachment of this call that is there and cannot be read.
AttachmentFailure ==
    /\ mail.op = "send_application_email"
    /\ \E i \in 1..Len(mail.attachments) : mail.files[mail.attachments[i]] = "unreadable"

StoreFailure ==
    \/ ~tracker.store_ok
    \/ /\ tracker.op = "update_application_status"
       /\ \A i \in 1..Len(store) : store[i].id # tracker.record_id

IsFlag(outcome) == outcome.status = "ok" /\ outcome.value \in BOOLEAN

\* C12: the mail operations and add_job_application / update_application_status
\* never raise and answer with a boolean: false on any connection, TLS,
\* authentication, send or store failure, true only if every step succeeded.
C12_FailuresAreFlagsNeverRaised ==
    /\ MailReturned =>
           /\ IsFlag(sent)
           /\ SmtpFailure => sent.value = FALSE
           /\ sent.value = TRUE => ~(SmtpFailure \/ AttachmentFailure \/ ~mail.smtp.quit)
    /\ TrackingReturned =>
           /\ IsFlag(tracked)
           /\ (tracker.initialised /\ StoreFailure) => tracked.value = FALSE
           /\ tracked.value = TRUE => (tracker.initialised /\ ~StoreFailure)

\* What does hold: while print works nothing is raised, every SMTP or store
\* failure gives false, and true means every SMTP step or the store request
\* succeeded.
FlagsWhilePrintWorks ==
    /\ (MailReturned /\ mail.stdout_writable) =>
           /\ IsFlag(sent)
           /\ SmtpFailure => sent.value = FALSE
           /\ sent.value = TRUE => ~(SmtpFailure \/ ~mail.smtp.quit)
    /\ (TrackingReturned /\ tracker.stdout_writable) =>
           /\ IsFlag(tracked)
           /\ (tracker.initialised /\ StoreFailure) => tracked.value = FALSE
           /\ tracked.value = TRUE => (tracker.initialised /\ ~StoreFailure)

AddReturned == pc = "done" /\ tracker # None /\ tracker.op = "add_job_application"

\* The store was reachable for this add_job_application.
AddCouldInsert == AddReturned /\ tracker.initialised /\ tracker.store_ok

Inserted == calls = <<<<"airtable", "insert">>>> /\ Len(store) > 0

LastRow == store[Len(store)].fields

\* The SMTP steps a mail operation took, QUIT left aside.
StepsTaken ==
    LET taken == SelectSeq(calls, LAMBDA c : c[2] # "quit")
    IN  [k \in 1..Len(taken) |-> taken[k][2]]

IsPrefix(q, full) == Len(q) <= Len(full) /\ q = SubSeq(full, 1, Len(q))

DispatchSteps == {"sendmail", "send_message"}

Dispatched == \E k \in 1..Len(StepsTaken) : StepsTaken[k] \in DispatchSteps

\* C18: every mail operation takes its SMTP steps in the order connect, TLS
\* upgrade, authentication, dispatch; a message is dispatched, and handed
\* over, only after the TLS upgrade and the authentication succeeded;
\* test_connection takes the first three steps and never dispatches.
C18_SmtpStepsInOrder ==
    MailReturned =>
        /\ \E d \in DispatchSteps : IsPrefix(StepsTaken, <<"connect", "starttls", "login", d>>)
        /\ (Dispatched \/ outbox # <<>>) =>
               /\ mail.smtp.connect /\ mail.smtp.starttls
               /\ mail.smtp.login /\ mail.password_accepted
               /\ Len(StepsTaken) = 4
        /\ Len(outbox) <= 1
        /\ mail.op = "test_connection" =>
               /\ ~Dispatched /\ outbox = <<>>
               /\ (mail.smtp.connect /\ mail.smtp.starttls)
                      => StepsTaken = <<"connect", "starttls", "login">>

\* An application mail that went through all four steps and was handed over.
C18_Witness ==
    /\ MailReturned
    /\ mail.op = "send_application_email"
    /\ calls = <<<<"smtp", "connect">>, <<"smtp", "starttls">>, <<"smtp", "login">>,
                 <<"smtp", "sendmail">>, <<"smtp", "quit">>>>
    /\ Len(outbox) = 1
    /\ sent = Ok(TRUE)

\* C13: given data without a 'Follow-up Date', the inserted record's Follow-up
\* Date is the record's Application Date plus 7 days.
C13_FollowUpIsApplicationDatePlusSeven ==
    (AddCouldInsert /\ "Follow-up Date" \notin DOMAIN tracker.application_data) =>
        /\ Inserted
        /\ "Follow-up Date" \in DOMAIN LastRow
        /\ LastRow["Follow-up Date"] =
               strftime(plus_days(strptime(LastRow["Application Date"]).value, 7))

\* What does hold: add_job_application never reaches insert and never answers
\* true.
AddNeverInserts ==
    AddReturned => (calls = <<>> /\ tracked # Ok(TRUE))

SummaryReturned ==
    pc = "done" /\ tracker # None /\ tracker.op = "generate_application_summary"

\* The stored records as the store lists them.
StoredApplications == [i \in 1..Len(store) |-> store[i].fields]

RECURSIVE SumOver(_, _)
SumOver(f, D) ==
    IF D = {} THEN 0
    ELSE LET d == CHOOSE x \in D : TRUE IN f[d] + SumOver(f, D \ {d})

\* The histogram counts every record under its Status, or under 'Unknown'.
HistogramCounts(summary, applications) ==
    /\ SumOver(summary.status_breakdown, DOMAIN summary.status_breakdown)
           = summary.total_applications
    /\ \A i \in 1..Len(applications) :
           LET s == IF "Status" \in DOMAIN applications[i]
                    THEN applications[i]["Status"] ELSE "Unknown"
           IN  /\ s \in DOMAIN summary.status_breakdown
               /\ summary.status_breakdown[s] =
                      Cardinality({j \in 1..Len(applications) :
                          (IF "Status" \in DOMAIN applications[j]
                           THEN applications[j]["Status"] ELSE "Unknown") = s})

\* Every non-empty Company value stands once in the list, and nothing else.
CompaniesOnce(summary, applications) ==
    LET listed == summary.companies_applied_to
        named == {applications[i]["Company"] :
                     i \in {j \in 1..Len(applications) :
                               /\ "Company" \in DOMAIN applications[j]
                               /\ applications[j]["Company"] # ""}}
    IN  /\ {listed[k] : k \in 1..Len(listed)} = named
        /\ Len(listed) = Cardinality(named)

\* The number of days from the Application Date to today, for dates that parse.
HasDate(app) ==
    /\ "Application Date" \in DOMAIN app
    /\ app["Application Date"] # ""
    /\ strptime(app["Application Date"]).status = "ok"

DaysAgo(app) ==
    toordinal(strptime(tracker.today).value)
        - toordinal(strptime(app["Application Date"]).value)

\* The summary of a non-empty list, with `recent` telling which records count
\* as recent.
SummaryOf(recent(_)) ==
    SummaryReturned =>
        IF ~tracker.initialised THEN tracked = Ok(empty_dict)
        ELSE tracker.store_ok =>
                 IF store = <<>> THEN tracked = Ok(empty_dict)
                 ELSE /\ tracked.status = "ok"
                      /\ tracked.value # empty_dict
                      /\ tracked.value.total_applications = Len(store)
                      /\ HistogramCounts(tracked.value, StoredApplications)
                      /\ CompaniesOnce(tracked.value, StoredApplications)
                      /\ tracked.value.recent_applications
                             = SelectSeq(StoredApplications, recent)

WithinLastSevenDays(app) == HasDate(app) /\ DaysAgo(app) >= 0 /\ DaysAgo(app) <= 7

NotOlderThanSevenDays(app) == HasDate(app) /\ DaysAgo(app) <= 7

\* C19: the summary of a non-empty list of records holds their number, a
\* histogram of Status ('Unknown' without one) whose counts sum to that
\* number, every non-empty Company once, and as recent exactly the records
\* whose Application Date is within the last 7 days; an empty list or an
\* uninitialised store gives an empty summary.
C19_SummaryRecentWithinLastSevenDays == SummaryOf(WithinLastSevenDays)

\* What holds instead: a record dated after today is recent as well.
SummaryRecentNotOlderThanSevenDays == SummaryOf(NotOlderThanSevenDays)

\* A reachable store, a record dated the day after today: it is listed as recent.
FutureDatedIsRecent ==
    /\ SummaryReturned
    /\ tracker.initialised /\ tracker.store_ok
    /\ tracker.today = "2024-03-03"
    /\ Len(store) = 1
    /\ store[1].fields["Application Date"] = "2024-03-04"
    /\ tracked.status = "ok"
    /\ tracked.value.recent_applications = <<store[1].fields>>

FollowUpSupplied ==
    AddCouldInsert /\ "Follow-up Date" \in DOMAIN tracker.application_data

\* C20: every record add_job_application hands to the store's insert has a
\* Follow-up Date; when the caller gives one, that value is the one stored.
C20_SuppliedFollowUpDateIsStored ==
    /\ Inserted => "Follow-up Date" \in DOMAIN LastRow
    /\ FollowUpSupplied =>
           /\ Inserted
           /\ "Follow-up Date" \in DOMAIN LastRow
           /\ LastRow["Follow-up Date"] = tracker.application_data["Follow-up Date"]

\* What holds instead: with a Follow-up Date given, nothing reaches the store.
SuppliedFollowUpNeverStored ==
    FollowUpSupplied => calls = <<>> /\ tracked = tracker_handler(tracker)

(***************************************************************************)
(* Claims about the 'Save to Airtable' button.                             *)
(***************************************************************************)
SaveReturned == pc = "done" /\ tracker # None /\ tracker.op = "save_to_airtable"

SaveAllProvided ==
    /\ SaveReturned
    /\ tracker.airtable_api_key # ""
    /\ tracker.company_name # ""
    /\ tracker.job_title # ""

InsertReached == \E k \in 1..Len(calls) : calls[k] = <<"airtable", "insert">>

\* C21: with the Airtable key, the company name and the job title provided,
\* the tracker the button builds reaches the store's insert, and success is
\* reported exactly when that insert succeeded.
C21_SaveReachesInsertAndReportsIt ==
    SaveAllProvided =>
        /\ InsertReached
        /\ tracked = Ok(save_succeeded) <=> tracker.store_ok
        /\ tracker.store_ok => Len(store) > 0

\* What holds instead: the tracker is built without a base id, so the click
\* never reaches insert and never reports success.
SaveNeverReachesInsert ==
    SaveReturned =>
        /\ calls = <<>>
        /\ tracked # Ok(save_succeeded)
        /\ SaveAllProvided =>
               tracked = (IF tracker.stdout_writable THEN Ok(save_failed)
                          ELSE Raise("OSError"))
        /\ ~SaveAllProvided => tracked = Ok(save_refused)

\* Everything provided and the store up: the click still reports a failure.
SaveFailsWithEverythingProvided ==
    /\ SaveAllProvided
    /\ tracker.store_ok /\ tracker.stdout_writable
    /\ tracked = Ok(save_failed)
    /\ calls = <<>>

(***************************************************************************)
(* Claims about the post-processing applied to its own result.             *)
(***************************************************************************)
FormattedTwice == pc = "done" /\ cover_letter # None /\ calls = <<>>

\* How often a part stands in a text.
Occurrences(text, part, from) ==
    Cardinality({i \in from..(Len(text) - Len(part) + 1) :
                    SubSeq(text, i, i + Len(part) - 1) = part})

\* C22: _format_cover_letter is idempotent: applied to its own result it gives
\* that result back, so a formatted letter gets no second header block and
\* no second closing block.
C22_FormatIsIdempotent ==
    FormattedTwice =>
        /\ cover_letter.value = format_cover_letter(letter_response)
        /\ Occurrences(cover_letter.value, header, 1)
               = Occurrences(format_cover_letter(letter_response), header, 1)
        /\ Occurrences(cover_letter.value, closing_block, 1)
               = Occurrences(format_cover_letter(letter_response), closing_block, 1)

\* A text that got both blocks in the first pass and nothing in the second.
C22_Witness ==
    /\ FormattedTwice
    /\ letter_response = "I can code."
    /\ cover_letter.value = header \o "I can code." \o closing_block
    /\ Occurrences(cover_letter.value, header, 1) = 1
    /\ Occurrences(cover_letter.value, closing_block, 1) = 1

(***************************************************************************)
(* Claims about the external requests of one invocation.                   *)
(***************************************************************************)
NoRequestRepeated == \A i, j \in 1..Len(calls) : calls[i] = calls[j] => i = j

====
